---------------------------- MODULE Spec2Model ----------------------------
(***************************************************************************)
(* Billing aggregation of the DigitalOcean FinOps dashboard:               *)
(* utils/dataUtils.js (record normalizer, time-window filters) and         *)
(* utils/csvUtils.js (ingestion adapter, aggregation).                     *)
(*                                                                         *)
(* Modelling conventions                                                   *)
(*  - a JavaScript string is a sequence of one-character strings, so that  *)
(*    replace(/[^\d.-]/g,''), parseFloat, toLowerCase, includes and the    *)
(*    regular expressions are computed character by character;             *)
(*  - a JavaScript number is an integer count of hundredths (cents); every *)
(*    numeric text of the input domain has at most two decimals and no     *)
(*    exponent, so parseFloat is exact on it;                              *)
(*  - an object is the sequence of its [k, v] entries in Object.entries    *)
(*    order (insertion order; no key of the domain is an array index);     *)
(*  - an instant is a count of half days since 1970-01-01T00:00Z (tod 0 =  *)
(*    midnight, tod 1 = later that day); the local time zone is UTC;       *)
(*  - dimension fields (description, category, product, name, ...) hold    *)
(*    strings or are absent in the records and lists the normalizer, the   *)
(*    filters and the aggregation are given; a CSV body of the fetch may   *)
(*    hold a numeral there, which Papa.parse reads as a number;            *)
(*  - the forecast is computed in exact fractions on monthly totals of a   *)
(*    few cents: a Math.pow root that is not clamped away stays symbolic,  *)
(*    a forecast being a * q^(1/k) + b, and Math.round(Math.sqrt(x) * c)   *)
(*    is decided on squares. No series of the domain sits on a threshold   *)
(*    where the rounding of a double would decide a comparison;            *)
(*  - the event loop runs one network event and the continuations it       *)
(*    wakes as one step.                                                   *)
(***************************************************************************)
EXTENDS Integers, Sequences, FiniteSets, TLC

\* ----------------------------------------------------------------- bounds
MaxFields == 3
MaxItems == 2
MaxMonths == 12
MaxPages == 2
MaxLoads == 1

\* ------------------------------------------------------ JavaScript values
Str(s) == [t |-> "str", s |-> s, n |-> 0]
Num(n) == [t |-> "num", s |-> <<>>, n |-> n]
Undef == [t |-> "undef", s |-> <<>>, n |-> 0]

\* ToBoolean, as used by `a || b` and `if (a)`
Truthy(v) ==
  \/ v.t = "str" /\ v.s # <<>>
  \/ v.t = "num" /\ v.n # 0

\* item[key] : the value of the entry with that key, undefined when absent
Has(item, key) == \E i \in 1..Len(item) : item[i].k = key
Get(item, key) ==
  IF Has(item, key)
  THEN item[CHOOSE i \in 1..Len(item) : item[i].k = key].v
  ELSE Undef

\* { ...item, key: v } / item[key] = v : overwrite in place, else append
Put(item, key, v) ==
  IF Has(item, key)
  THEN [i \in 1..Len(item) |-> IF item[i].k = key THEN [k |-> key, v |-> v] ELSE item[i]]
  ELSE Append(item, [k |-> key, v |-> v])

\* ------------------------------------------------------------- characters
Digits == <<"0", "1", "2", "3", "4", "5", "6", "7", "8", "9">>
UpperCase == <<"A", "B", "C", "D", "E", "F", "G", "H", "I", "J", "K", "L", "M", "N", "O", "P", "Q", "R", "S", "T", "U", "V", "W", "X", "Y", "Z">>
LowerCase == <<"a", "b", "c", "d", "e", "f", "g", "h", "i", "j", "k", "l", "m", "n", "o", "p", "q", "r", "s", "t", "u", "v", "w", "x", "y", "z">>
DigitSet == {Digits[i] : i \in 1..10}
DigitValues == [c \in DigitSet |-> (CHOOSE i \in 1..10 : Digits[i] = c) - 1]
UpperSet == {UpperCase[i] : i \in 1..26}
LetterSet == UpperSet \cup {LowerCase[i] : i \in 1..26}
LowerOf == [c \in UpperSet |-> LowerCase[CHOOSE i \in 1..26 : UpperCase[i] = c]]
IndexIn(x, list) ==
  IF \E i \in 1..Len(list) : list[i] = x
  THEN CHOOSE i \in 1..Len(list) : list[i] = x
  ELSE 0
IsDigit(c) == c \in DigitSet
DigitVal(c) == DigitValues[c]
IsLetter(c) == c \in LetterSet

\* String.prototype.toLowerCase
ToLowerCase(s) == [i \in 1..Len(s) |-> IF s[i] \in UpperSet THEN LowerOf[s[i]] ELSE s[i]]

\* String.prototype.includes
Includes(s, sub) ==
  Len(sub) <= Len(s) /\ \E i \in 0..(Len(s) - Len(sub)) : SubSeq(s, i + 1, i + Len(sub)) = sub

\* s.replace(/[^\d.-]/g, '')
KeepsInClean(c) == IsDigit(c) \/ c = "." \/ c = "-"
Clean(s) == SelectSeq(s, KeepsInClean)

\* the length of the run of digits of s that starts at position i
RECURSIVE DigitRun(_, _)
DigitRun(s, i) ==
  IF i <= Len(s) /\ IsDigit(s[i]) THEN 1 + DigitRun(s, i + 1) ELSE 0

\* the value of the digits s[i..j] read as a decimal numeral
RECURSIVE DigitsValue(_, _, _)
DigitsValue(s, i, j) ==
  IF j < i THEN 0 ELSE 10 * DigitsValue(s, i, j - 1) + DigitVal(s[j])

\* the number of leading white-space characters of s
RECURSIVE LeadingSpaces(_)
LeadingSpaces(s) ==
  IF s # <<>> /\ Head(s) = " " THEN 1 + LeadingSpaces(Tail(s)) ELSE 0

NaN == [ok |-> FALSE, v |-> 0]
Number(v) == [ok |-> TRUE, v |-> v]

\* parseFloat on a string: white space, sign, digits, '.', digits; the longest
\* prefix that is a decimal literal, NaN when there is none.  In cents.
ParseFloatStr(s) ==
  LET start == LeadingSpaces(s) + 1
      signed == start <= Len(s) /\ s[start] \in {"-", "+"}
      negative == signed /\ s[start] = "-"
      i0 == IF signed THEN start + 1 ELSE start
      nInt == DigitRun(s, i0)
      dot == i0 + nInt
      hasDot == dot <= Len(s) /\ s[dot] = "."
      nFrac == IF hasDot THEN DigitRun(s, dot + 1) ELSE 0
      whole == DigitsValue(s, i0, i0 + nInt - 1)
      tenths == IF nFrac >= 1 THEN DigitVal(s[dot + 1]) ELSE 0
      hundredths == IF nFrac >= 2 THEN DigitVal(s[dot + 2]) ELSE 0
      magnitude == 100 * whole + 10 * tenths + hundredths
  IN  IF nInt + nFrac = 0 THEN NaN
      ELSE Number(IF negative THEN 0 - magnitude ELSE magnitude)

\* parseFloat(value) for any value: ToString first
ParseFloat(v) ==
  CASE v.t = "str" -> ParseFloatStr(v.s)
    [] v.t = "num" -> Number(v.n)
    [] OTHER -> NaN

\* ------------------------------------------------------ Record normalizer
\* the named fields with cost checked before amount
NamedAmountFieldsCostFirst == <<"cost", "amount", "price", "charge">>
NamedAmountFields == <<"amount", "cost", "price", "charge">>

\* the scan without its deny list
ScanEntryNoDenyList(e) ==
  IF e.v.t = "str" /\ (Includes(e.v.s, <<"$">>) \/ Includes(e.v.s, <<"-">>))
  THEN ParseFloatStr(Clean(e.v.s))
  ELSE IF e.v.t = "num" THEN Number(e.v.n)
  ELSE NaN

\* the amount the scan of lines 485-504 takes from one entry (ok = FALSE: the
\* entry is passed over)
ScanEntry(e) ==
  IF e.k = "hours" \/ e.k = "invoice_amount" THEN NaN
  ELSE IF e.v.t = "str" /\ (Includes(e.v.s, <<"$">>) \/ Includes(e.v.s, <<"-">>))
       THEN ParseFloatStr(Clean(e.v.s))
  ELSE IF e.v.t = "num" THEN Number(e.v.n)
  ELSE NaN

RECURSIVE ScanFrom(_, _)
ScanFrom(item, i) ==
  IF i > Len(item) THEN 0
  ELSE IF ScanEntry(item[i]).ok THEN ScanEntry(item[i]).v
  ELSE ScanFrom(item, i + 1)

RECURSIVE NamedFrom(_, _)
NamedFrom(item, j) ==
  IF j > Len(NamedAmountFields) THEN ScanFrom(item, 1)
  ELSE IF Has(item, NamedAmountFields[j]) /\ ParseFloat(Get(item, NamedAmountFields[j])).ok
       THEN ParseFloat(Get(item, NamedAmountFields[j])).v
  ELSE NamedFrom(item, j + 1)

extractMonetaryValue(item) ==
  LET usd == Get(item, "USD")
  IN  IF Has(item, "USD") /\ usd.t = "str" /\ ParseFloatStr(Clean(usd.s)).ok
      THEN ParseFloatStr(Clean(usd.s)).v
      ELSE IF Has(item, "USD") /\ usd.t = "num" THEN usd.n
      ELSE NamedFrom(item, 1)

\* (item.field || '').toLowerCase()
LowerField(item, field) ==
  IF Truthy(Get(item, field)) THEN ToLowerCase(Get(item, field).s) ELSE <<>>

\* the keyword list without its last two entries
discountKeywordsShort == <<<<"d", "i", "s", "c", "o", "u", "n", "t">>, <<"c", "r", "e", "d", "i", "t">>, <<"r", "e", "f", "u", "n", "d">>>>
discountKeywords ==
  <<<<"d", "i", "s", "c", "o", "u", "n", "t">>, <<"c", "r", "e", "d", "i", "t">>, <<"r", "e", "f", "u", "n", "d">>, <<"r", "e", "b", "a", "t", "e">>, <<"a", "d", "j", "u", "s", "t", "m", "e", "n", "t">>>>

isDiscountItem(item) ==
  LET description == LowerField(item, "description")
      category == LowerField(item, "category")
      product == LowerField(item, "product")
      name == LowerField(item, "name")
  IN  IF extractMonetaryValue(item) < 0 THEN TRUE
      ELSE \E w \in 1..Len(discountKeywords) :
             \/ Includes(description, discountKeywords[w])
             \/ Includes(category, discountKeywords[w])
             \/ Includes(product, discountKeywords[w])
             \/ Includes(name, discountKeywords[w])

categorizeDiscountItem(item) ==
  LET description == LowerField(item, "description")
      category == LowerField(item, "category")
  IN  IF Includes(description, <<"i", "a", "a", "s">>) \/ Includes(category, <<"i", "a", "a", "s">>)
      THEN <<"I", "a", "a", "S", " ", "D", "i", "s", "c", "o", "u", "n", "t">>
      ELSE IF Includes(description, <<"p", "a", "a", "s">>) \/ Includes(category, <<"p", "a", "a", "s">>)
      THEN <<"P", "a", "a", "S", " ", "D", "i", "s", "c", "o", "u", "n", "t">>
      ELSE IF Includes(description, <<"c", "o", "n", "t", "r", "a", "c", "t">>)
      THEN <<"C", "o", "n", "t", "r", "a", "c", "t", " ", "D", "i", "s", "c", "o", "u", "n", "t">>
      ELSE <<"D", "i", "s", "c", "o", "u", "n", "t", "s">>

\* ------------------------------------------------------------------ dates
\* leap days before 1 January of year y, and days from 1970-01-01 to the first
\* day of month0 (0 = January; any integer, as Date normalises it) of year y
LeapsBefore(y) == ((y - 1) \div 4) - ((y - 1) \div 100) + ((y - 1) \div 400)
IsLeap(y) == (y % 4 = 0 /\ y % 100 # 0) \/ y % 400 = 0
CumulativeDays == <<0, 31, 59, 90, 120, 151, 181, 212, 243, 273, 304, 334>>
DaysInMonth(y, m) ==
  IF m = 2 THEN (IF IsLeap(y) THEN 29 ELSE 28)
  ELSE IF m \in {4, 6, 9, 11} THEN 30 ELSE 31
DayFromYearMonth(y, month0) ==
  LET yy == y + (month0 \div 12)
      mm == month0 % 12
  IN  365 * (yy - 1970) + (LeapsBefore(yy) - LeapsBefore(1970))
      + CumulativeDays[mm + 1] + (IF mm >= 2 /\ IsLeap(yy) THEN 1 ELSE 0)

\* a Date object: ok = FALSE is Invalid Date (getTime() is NaN)
InvalidDate == [ok |-> FALSE, t |-> 0, y |-> 0, m |-> 0]
MakeDate(y, m, d, tod) ==
  [ok |-> TRUE, t |-> 2 * (DayFromYearMonth(y, m - 1) + d - 1) + tod, y |-> y, m |-> m]

\* the string with every digit replaced by "d"
Shape(s) == [i \in 1..Len(s) |-> IF IsDigit(s[i]) THEN "d" ELSE s[i]]

\* /^\d{4}-\d{2}$/.test(s)
IsYearMonth(s) == Shape(s) = <<"d", "d", "d", "d", "-", "d", "d">>

\* new Date(string).  The ISO date forms are fixed by the language; any other
\* text is parsed by the engine's own fallback: a lenient engine reads
\* "YYYY-M" and "YYYY-MM-DD hh:mm:ss +0000", a strict one rejects them.
DateFromString(s, engine) ==
  LET y == DigitsValue(s, 1, 4)
      m == DigitsValue(s, 6, 7)
      d == DigitsValue(s, 9, 10)
  IN  IF Shape(s) = <<"d", "d", "d", "d", "-", "d", "d">>
      THEN IF m \in 1..12 THEN MakeDate(y, m, 1, 0) ELSE InvalidDate
      ELSE IF Shape(s) = <<"d", "d", "d", "d", "-", "d", "d", "-", "d", "d">>
      THEN IF m \in 1..12 /\ d >= 1 /\ d <= DaysInMonth(y, m)
           THEN MakeDate(y, m, d, 0) ELSE InvalidDate
      ELSE IF Shape(s) = <<"d", "d", "d", "d", "-", "d", "d", "-", "d", "d", "T", "d", "d", ":", "d", "d", ":", "d", "d", "Z">>
      THEN IF m \in 1..12 /\ d >= 1 /\ d <= DaysInMonth(y, m)
           THEN MakeDate(y, m, d, IF SubSeq(s, 12, 19) = <<"0", "0", ":", "0", "0", ":", "0", "0">> THEN 0 ELSE 1)
           ELSE InvalidDate
      ELSE IF engine = "lenient" /\ Shape(s) = <<"d", "d", "d", "d", "-", "d">>
      THEN IF DigitsValue(s, 6, 6) >= 1
           THEN MakeDate(y, DigitsValue(s, 6, 6), 1, 0) ELSE InvalidDate
      ELSE IF engine = "lenient" /\ Shape(s) = <<"d", "d", "d", "d", "-", "d", "d", "-", "d", "d", " ", "d", "d", ":", "d", "d", ":", "d", "d", " ", "+", "d", "d", "d", "d">>
      THEN IF m \in 1..12 /\ d >= 1 /\ d <= DaysInMonth(y, m)
                /\ SubSeq(s, 21, 25) = <<"+", "0", "0", "0", "0">>
           THEN MakeDate(y, m, d, IF SubSeq(s, 12, 19) = <<"0", "0", ":", "0", "0", ":", "0", "0">> THEN 0 ELSE 1)
           ELSE InvalidDate
      ELSE InvalidDate

\* new Date(value) for a field value that is truthy
DateFromValue(v, engine) ==
  IF v.t = "str" THEN DateFromString(v.s, engine) ELSE InvalidDate

\* ------------------------------------------------------ Time-window filter
TimeRanges == {"1month", "3months", "6months", "12months", "all"}

\* the months that filterLineItemsByTimeRange's switch subtracts
\* the switch with the 3months and 6months cases exchanged
LineItemMonthsBackExchanged(selectedRange) ==
  CASE selectedRange = "1month" -> 2
    [] selectedRange = "3months" -> 7
    [] selectedRange = "6months" -> 4
    [] selectedRange = "12months" -> 13
    [] OTHER -> 7
LineItemMonthsBack(selectedRange) ==
  CASE selectedRange = "1month" -> 2
    [] selectedRange = "3months" -> 4
    [] selectedRange = "6months" -> 7
    [] selectedRange = "12months" -> 13
    [] OTHER -> 7

\* filterDate = new Date(); filterDate.setMonth(filterDate.getMonth() - back)
FilterInstant(today, back) ==
  2 * (DayFromYearMonth(today.y, today.m - 1 - back) + today.d - 1) + today.tod

\* the itemDate of the filter callback (lines 415-434)
ItemDate(item, engine) ==
  LET period == Get(item, "invoice_period")
  IN  IF Truthy(period)
      THEN IF period.t = "str" /\ IsYearMonth(period.s)
           THEN DateFromString(period.s \o <<"-", "0", "1">>, engine)
           ELSE DateFromValue(period, engine)
      ELSE IF Truthy(Get(item, "date")) THEN DateFromValue(Get(item, "date"), engine)
      ELSE IF Truthy(Get(item, "start")) THEN DateFromValue(Get(item, "start"), engine)
      ELSE IF Truthy(Get(item, "created_at")) THEN DateFromValue(Get(item, "created_at"), engine)
      ELSE IF Truthy(Get(item, "invoice_date")) THEN DateFromValue(Get(item, "invoice_date"), engine)
      ELSE InvalidDate

\* the filter callback that drops the items without a valid date
KeepsLineItemFailClosed(item, filterInstant, engine) ==
  ItemDate(item, engine).ok /\ ItemDate(item, engine).t >= filterInstant
\* the filter callback: items without a valid date are kept
KeepsLineItem(item, filterInstant, engine) ==
  IF ~ItemDate(item, engine).ok THEN TRUE
  ELSE ItemDate(item, engine).t >= filterInstant

\* Array.prototype.filter with a predicate given as a function index -> BOOLEAN
RECURSIVE FilterSeq(_, _, _)
FilterSeq(seq, keep, i) ==
  IF i > Len(seq) THEN <<>>
  ELSE (IF keep[i] THEN <<seq[i]>> ELSE <<>>) \o FilterSeq(seq, keep, i + 1)

filterLineItemsByTimeRange(lineItems, selectedRange, today, engine) ==
  IF Len(lineItems) = 0 THEN <<>>
  ELSE IF selectedRange = "all" THEN lineItems
  ELSE LET filterInstant == FilterInstant(today, LineItemMonthsBack(selectedRange))
       IN  FilterSeq(lineItems,
                     [i \in 1..Len(lineItems) |-> KeepsLineItem(lineItems[i], filterInstant, engine)],
                     1)

\* ------------------------------------------------------ Trend and forecast
\* JavaScript numbers in the forecast arithmetic: exact fractions n / d of a
\* cent with d > 0, in lowest terms (the rounding of binary floating point is
\* not represented)
RECURSIVE GCD(_, _)
GCD(a, b) == IF b = 0 THEN a ELSE GCD(b, a % b)
Abs(x) == IF x < 0 THEN 0 - x ELSE x
Reduce(n, d, g) == [n |-> n \div g, d |-> d \div g]
Frac(n, d) ==
  IF d < 0 THEN Reduce(0 - n, 0 - d, GCD(Abs(n), Abs(d))) ELSE Reduce(n, d, GCD(Abs(n), Abs(d)))
Whole(n) == [n |-> n, d |-> 1]
Plus(x, y) == Frac(x.n * (y.d \div GCD(x.d, y.d)) + y.n * (x.d \div GCD(x.d, y.d)),
                   x.d * (y.d \div GCD(x.d, y.d)))
Minus(x, y) == Plus(x, [n |-> 0 - y.n, d |-> y.d])
TimesReduced(a, b) == [n |-> a.n * b.n, d |-> a.d * b.d]
Times(x, y) == TimesReduced(Frac(x.n, y.d), Frac(y.n, x.d))
Over(x, y) == Times(x, Frac(y.d, y.n))
Less(x, y) == x.n * y.d < y.n * x.d
AbsOf(x) == [n |-> Abs(x.n), d |-> x.d]
Least(x, y) == IF Less(y, x) THEN y ELSE x
Greatest(x, y) == IF Less(x, y) THEN y ELSE x

\* Math.pow(r, k) for a whole k >= 0
RECURSIVE Power(_, _)
Power(r, k) == IF k = 0 THEN Whole(1) ELSE Times(r, Power(r, k - 1))

\* a forecast amount: NaN, or a * q^(1/k) + b with fractions a, q, b, which is
\* the fraction b when a is zero
NotANumber == [nan |-> TRUE, a |-> Whole(0), q |-> Whole(1), k |-> 1, b |-> Whole(0)]
Exact(r) == [nan |-> FALSE, a |-> Whole(0), q |-> Whole(1), k |-> 1, b |-> r]
\* factor * Math.max(lo, Math.min(hi, Math.pow(ratio, 1 / k))) for k >= 2
ClampedRoot(factor, ratio, k, lo, hi) ==
  IF ratio.n < 0 THEN NotANumber
  ELSE IF factor.n = 0 THEN Exact(Whole(0))
  ELSE IF ~Less(Power(lo, k), ratio) THEN Exact(Times(factor, lo))
  ELSE IF ~Less(ratio, Power(hi, k)) THEN Exact(Times(factor, hi))
  ELSE IF ratio.n = ratio.d THEN Exact(factor)
  ELSE [nan |-> FALSE, a |-> factor, q |-> ratio, k |-> k, b |-> Whole(0)]
\* x * s + r for a forecast amount x and fractions s, r
Scaled(x, s, r) ==
  IF x.nan THEN NotANumber
  ELSE IF x.a.n = 0 THEN Exact(Plus(Times(x.b, s), r))
  ELSE [nan |-> FALSE, a |-> Times(x.a, s), q |-> x.q, k |-> x.k, b |-> Plus(Times(x.b, s), r)]

\* values.slice(from, to) on 0-based indexes, to excluded
Slice(values, from, to) == SubSeq(values, from + 1, to)
\* values.reduce((sum, val) => sum + val, 0)
RECURSIVE SumOf(_, _)
SumOf(values, n) == IF n = 0 THEN 0 ELSE values[n] + SumOf(values, n - 1)
Total(values) == SumOf(values, Len(values))
\* the sum of the squares of the values
RECURSIVE SumOfSquares(_, _)
SumOfSquares(values, n) ==
  IF n = 0 THEN 0 ELSE values[n] * values[n] + SumOfSquares(values, n - 1)

\* Math.min(hi, Math.max(lo, Math.round(100 * Math.sqrt(square)))) for a
\* fraction square >= 0: the largest percent p in lo..hi with
\* p - 1/2 <= 100 * sqrt(square), or lo
ConfidencePercent(square, lo, hi) ==
  LET reached == {p \in lo..hi : ~Less(Times(square, Whole(40000)), Whole((2 * p - 1) * (2 * p - 1)))}
  IN  IF reached = {} THEN lo ELSE CHOOSE p \in reached : \A other \in reached : other <= p

\* the texts of the result: trendText is 'N/A' or a direction with a percent
\* in tenths (toFixed(1)); confidenceText is a template with the number of
\* months and the percent it is filled with, and the anomaly suffix
TrendUnknown == [direction |-> "N/A", tenths |-> 0]
Confidence(text, months, percent) ==
  [text |-> text, months |-> months, percent |-> percent, anomaly |-> FALSE]

\* a trendText that, as an earlier revision of line 1625 did, asks for
\* prevSpend > 0
TrendTextPositiveOnly(lastSpend, prevSpend, fullDataset) ==
  IF fullDataset /\ prevSpend > 0
  THEN [direction |-> IF lastSpend - prevSpend >= 0 THEN "Up" ELSE "Down",
        tenths |-> (2000 * (IF lastSpend >= prevSpend THEN lastSpend - prevSpend
                            ELSE prevSpend - lastSpend) + prevSpend) \div (2 * prevSpend)]
  ELSE TrendUnknown
\* the trendText of lines 1624-1633: (change / Math.abs(prevSpend)) * 100 to
\* one decimal, a half rounded up
TrendText(lastSpend, prevSpend, fullDataset) ==
  IF fullDataset /\ prevSpend # 0
  THEN [direction |-> IF lastSpend - prevSpend >= 0 THEN "Up" ELSE "Down",
        tenths |-> (2000 * Abs(lastSpend - prevSpend) + Abs(prevSpend)) \div (2 * Abs(prevSpend))]
  ELSE TrendUnknown

\* mean and variance of the values, and (Math.sqrt(variance) / Math.abs(mean))^2,
\* which is 0 when the mean is 0
Mean(values) == Frac(Total(values), Len(values))
RECURSIVE SquaredDeviations(_, _, _)
SquaredDeviations(values, mean, n) ==
  IF n = 0 THEN Whole(0)
  ELSE Plus(Times(Minus(Whole(values[n]), mean), Minus(Whole(values[n]), mean)),
            SquaredDeviations(values, mean, n - 1))
Variance(values) == Over(SquaredDeviations(values, Mean(values), Len(values)), Whole(Len(values)))
SquaredVariation(values) ==
  IF Total(values) = 0 THEN Whole(0)
  ELSE Over(Variance(values), Times(Mean(values), Mean(values)))

\* ---- 12 and more months (lines 1645-1708)
\* the month-over-month growth rates of the last months, for i = from..5
RECURSIVE RecentGrowthRates(_, _)
RecentGrowthRates(values, i) ==
  IF i >= 6 THEN <<>>
  ELSE (IF values[Len(values) - i] # 0
        THEN <<Frac(values[Len(values) - i + 1], values[Len(values) - i])>>
        ELSE <<>>) \o RecentGrowthRates(values, i + 1)
RECURSIVE SumOfRates(_, _)
SumOfRates(rates, n) == IF n = 0 THEN Whole(0) ELSE Plus(rates[n], SumOfRates(rates, n - 1))
AverageRate(rates) ==
  IF Len(rates) > 0 THEN Over(SumOfRates(rates, Len(rates)), Whole(Len(rates))) ELSE Whole(1)
\* (last3MonthsAvg * 0.7 + last6MonthsAvg * 0.3)
MovingAverages(values) ==
  Plus(Times(Frac(Total(Slice(values, Len(values) - 3, Len(values))), 3), Frac(7, 10)),
       Times(Frac(Total(Slice(values, Len(values) - 6, Len(values))), 6), Frac(3, 10)))
\* movingAvgForecast: the moving averages times the capped seasonal factor
SeasonalPriorYear(values, sameMonthLastYear, trailingSum) ==
  IF trailingSum # 0
  THEN Exact(Times(MovingAverages(values),
                   Greatest(Frac(4, 5), Least(Frac(6, 5),
                            Over(Whole(sameMonthLastYear), Frac(trailingSum, 6))))))
  ELSE Exact(MovingAverages(values))
SeasonalHalves(values, firstHalfSum, secondHalfSum) ==
  IF firstHalfSum # 0
  THEN ClampedRoot(MovingAverages(values), Frac(secondHalfSum, firstHalfSum), 6,
                   Frac(4, 5), Frac(6, 5))
  ELSE Exact(MovingAverages(values))
MovingAvgForecast(values) ==
  IF Len(values) > 12
  THEN SeasonalPriorYear(values, values[Len(values) - 11],
                         Total(Slice(values, IF Len(values) > 15 THEN Len(values) - 15 ELSE 0,
                                     Len(values) - 9)))
  ELSE SeasonalHalves(values, Total(Slice(values, 0, 6)),
                      Total(Slice(values, Len(values) - 6, Len(values))))
ForecastEnsemble(values, lastSpend) ==
  [forecastAmount |->
     Scaled(MovingAvgForecast(values), Frac(2, 5),
            Times(Times(Whole(lastSpend), AverageRate(RecentGrowthRates(values, 1))), Frac(3, 5))),
   confidenceText |->
     Confidence("Based on ${values.length} months with seasonal adjustment, +-${confidencePercent}%",
                Len(values), ConfidencePercent(SquaredVariation(values), 5, 25))]

\* ---- 6 to 11 months (lines 1709-1751)
weights == <<Frac(35, 100), Frac(25, 100), Frac(15, 100), Frac(10, 100), Frac(8, 100), Frac(7, 100)>>
RECURSIVE WeightedSum(_, _)
WeightedSum(values, i) ==
  IF i >= 6 THEN Whole(0)
  ELSE Plus(Times(Whole(values[Len(values) - i]), weights[i + 1]), WeightedSum(values, i + 1))
RECURSIVE WeightSum(_)
WeightSum(i) == IF i >= 6 THEN Whole(0) ELSE Plus(weights[i + 1], WeightSum(i + 1))
WeightedAvg(values) == Over(WeightedSum(values, 0), WeightSum(0))
\* weightedAvg * growthFactor
Retrended(values, firstHalf, secondHalf) ==
  IF Total(firstHalf) # 0
  THEN ClampedRoot(WeightedAvg(values),
                   Over(Frac(Total(secondHalf), Len(secondHalf)), Frac(Total(firstHalf), Len(firstHalf))),
                   Len(secondHalf), Frac(9, 10), Frac(11, 10))
  ELSE Exact(Times(WeightedAvg(values), Frac(102, 100)))
ForecastWeighted(values) ==
  [forecastAmount |->
     Retrended(values, Slice(values, 0, Len(values) \div 2),
               Slice(values, Len(values) \div 2, Len(values))),
   confidenceText |->
     Confidence("Based on ${values.length} months trend analysis, +-${confidencePercent}%",
                Len(values), ConfidencePercent(SquaredVariation(values), 8, 20))]

\* ---- 3 to 5 months (lines 1752-1817)
\* sums over i = 0..n-1 of i, i * values[i] and i * i
RECURSIVE SumXY(_, _)
SumXY(values, n) == IF n = 0 THEN 0 ELSE (n - 1) * values[n] + SumXY(values, n - 1)
SumX(n) == (n * (n - 1)) \div 2
SumX2(n) == ((n - 1) * n * (2 * n - 1)) \div 6
Slope(values, n) ==
  IF n * SumX2(n) - SumX(n) * SumX(n) # 0
  THEN Frac(n * SumXY(values, n) - SumX(n) * Total(values), n * SumX2(n) - SumX(n) * SumX(n))
  ELSE Whole(0)
InterceptOf(values, n, slope) == Over(Minus(Whole(Total(values)), Times(slope, Whole(SumX(n)))), Whole(n))
Intercept(values, n) == InterceptOf(values, n, Slope(values, n))
\* intercept + slope * x
Predicted(values, n, x) == Plus(Intercept(values, n), Times(Slope(values, n), Whole(x)))
\* the sum of firstDiffs[i] - firstDiffs[i-1] for i = 1..firstDiffs.length-1
RECURSIVE DiffSum(_, _)
DiffSum(values, i) ==
  IF i < 3 THEN 0
  ELSE (values[i] - values[i - 1]) - (values[i - 1] - values[i - 2]) + DiffSum(values, i - 1)
Acceleration(values, n) ==
  IF n >= 3 /\ n - 1 > 1 THEN Times(Frac(DiffSum(values, n), n - 2), Frac(1, 2)) ELSE Whole(0)
\* the bounds of lines 1797-1800, the lower one first
AboveHalf(forecastAmount, lastValue) ==
  IF Less(forecastAmount, Times(Whole(lastValue), Frac(1, 2))) /\ lastValue > 0
  THEN Times(Whole(lastValue), Frac(9, 10)) ELSE forecastAmount
\* a regression without the upper bound of line 1802
BelowDoubleUnbounded(forecastAmount, lastValue) == forecastAmount
BelowDouble(forecastAmount, lastValue) ==
  IF Less(Times(Whole(lastValue), Whole(2)), forecastAmount) /\ lastValue > 0
  THEN Times(Whole(lastValue), Frac(13, 10)) ELSE forecastAmount
RECURSIVE SumSquaredErrors(_, _, _)
SumSquaredErrors(values, n, i) ==
  IF i = 0 THEN Whole(0)
  ELSE Plus(Times(Minus(Whole(values[i]), Predicted(values, n, i - 1)),
                  Minus(Whole(values[i]), Predicted(values, n, i - 1))),
            SumSquaredErrors(values, n, i - 1))
RegressionPercent(values, n) ==
  IF Total(values) # 0
  THEN ConfidencePercent(Over(Over(SumSquaredErrors(values, n, n), Whole(n - 2)),
                              Times(Mean(values), Mean(values))), 10, 25)
  ELSE 15
ForecastRegression(values) ==
  [forecastAmount |->
     Exact(BelowDouble(AboveHalf(Plus(Predicted(values, Len(values), Len(values)),
                                      Acceleration(values, Len(values))),
                                 values[Len(values)]),
                       values[Len(values)])),
   confidenceText |->
     Confidence("Based on ${n} months regression analysis, +-${confidencePercent}%",
                Len(values), RegressionPercent(values, Len(values)))]

\* ---- 2 months (lines 1818-1840)
Dampening(growthRate) ==
  IF Less(Frac(3, 2), growthRate) \/ Less(growthRate, Frac(3, 4)) THEN Frac(1, 2) ELSE Frac(7, 10)
\* lastSpend * dampedGrowthRate
Damped(lastSpend, growthRate) ==
  Times(Whole(lastSpend),
        Plus(Whole(1), Times(Minus(growthRate, Whole(1)), Dampening(growthRate))))
Conservative(forecastAmount, lastSpend) ==
  IF Less(Times(Whole(Abs(lastSpend)), Frac(13, 10)), AbsOf(forecastAmount))
  THEN Times(Whole(lastSpend), IF lastSpend >= 0 THEN Frac(13, 10) ELSE Frac(7, 10))
  ELSE forecastAmount
ForecastDamped(lastSpend, prevSpend) ==
  [forecastAmount |->
     Exact(Conservative(Damped(lastSpend,
                               IF prevSpend # 0 THEN Frac(lastSpend, prevSpend) ELSE Whole(1)),
                        lastSpend)),
   confidenceText |-> Confidence("Based on 2 months of data, high uncertainty (+-20%)", 0, 0)]

\* ---- 1 month in view (lines 1640-1643)
\* a forecast that carries the month forward as it is, without the growth
\* that line 1641 assumes
ForecastLimitedFlat(lastSpend) ==
  [forecastAmount |-> Exact(Whole(lastSpend)),
   confidenceText |-> Confidence("Based on limited visible data, high variance possible", 0, 0)]
ForecastLimited(lastSpend) ==
  [forecastAmount |-> Exact(Times(Whole(lastSpend), Frac(103, 100))),
   confidenceText |-> Confidence("Based on limited visible data, high variance possible", 0, 0)]

\* ---- anomaly detection and smoothing (lines 1842-1860)
\* [...values].sort((a, b) => a - b)[at], at 0-based
SortedValueAt(values, at) ==
  CHOOSE v \in {values[i] : i \in 1..Len(values)} :
    /\ Cardinality({i \in 1..Len(values) : values[i] < v}) <= at
    /\ at < Cardinality({i \in 1..Len(values) : values[i] <= v})
ThreeMonthAvg(values) ==
  Frac(values[Len(values) - 1] + values[Len(values) - 2] + values[Len(values) - 3], 3)
\* Math.abs(lastSpend - baseline) / Math.abs(baseline), 0 for a zero baseline
Deviation(lastSpend, baseline) ==
  IF baseline.n # 0 THEN Over(AbsOf(Minus(Whole(lastSpend), baseline)), AbsOf(baseline))
  ELSE Whole(0)
\* an anomaly test that is content with one of the two deviations
IsAnomalyEither(values, lastSpend) ==
  \/ Less(Frac(3, 10), Deviation(lastSpend, Whole(SortedValueAt(values, Len(values) \div 2))))
  \/ Less(Frac(1, 4), Deviation(lastSpend, ThreeMonthAvg(values)))
IsAnomaly(values, lastSpend) ==
  /\ Less(Frac(3, 10), Deviation(lastSpend, Whole(SortedValueAt(values, Len(values) \div 2))))
  /\ Less(Frac(1, 4), Deviation(lastSpend, ThreeMonthAvg(values)))
BlendedBaseline(values) ==
  Plus(Times(ThreeMonthAvg(values), Frac(7, 10)),
       Times(Whole(SortedValueAt(values, Len(values) \div 2)), Frac(3, 10)))
Smoothed(values, lastSpend, forecast) ==
  IF Len(values) >= 4 /\ IsAnomaly(values, lastSpend)
  THEN [forecastAmount |->
          Scaled(forecast.forecastAmount, Frac(2, 5), Times(BlendedBaseline(values), Frac(3, 5))),
        confidenceText |-> [forecast.confidenceText EXCEPT !.anomaly = TRUE]]
  ELSE forecast

\* a dispatch that takes the regression from four months on, so that three
\* months fall to the two-month method
ForecastOfFromFour(values, lastSpend, prevSpend, fullDataset) ==
  IF ~fullDataset THEN ForecastLimited(lastSpend)
  ELSE IF Len(values) >= 12 THEN ForecastEnsemble(values, lastSpend)
  ELSE IF Len(values) >= 6 THEN ForecastWeighted(values)
  ELSE IF Len(values) >= 4 THEN ForecastRegression(values)
  ELSE ForecastDamped(lastSpend, prevSpend)
\* the forecasting method by the length of the series (lines 1636-1840)
ForecastOf(values, lastSpend, prevSpend, fullDataset) ==
  IF ~fullDataset THEN ForecastLimited(lastSpend)
  ELSE IF Len(values) >= 12 THEN ForecastEnsemble(values, lastSpend)
  ELSE IF Len(values) >= 6 THEN ForecastWeighted(values)
  ELSE IF Len(values) >= 3 THEN ForecastRegression(values)
  ELSE ForecastDamped(lastSpend, prevSpend)
WithTrend(trendText, forecast) ==
  [trendText |-> trendText, forecastAmount |-> forecast.forecastAmount,
   confidenceText |-> forecast.confidenceText]
TrendAndForecast(values, lastSpend, prevSpend, fullDataset) ==
  WithTrend(TrendText(lastSpend, prevSpend, fullDataset),
            Smoothed(values, lastSpend, ForecastOf(values, lastSpend, prevSpend, fullDataset)))

\* calculateTrendAndForecast (lines 1580-1863); labels is an array whenever
\* the aggregation calls it, and itemCount only fills a text of a branch that
\* the first test leaves unreachable
calculateTrendAndForecast(labels, values, itemCount) ==
  IF Len(values) = 0
  THEN [trendText |-> TrendUnknown, forecastAmount |-> Exact(Whole(0)),
        confidenceText |-> Confidence("No data available", 0, 0)]
  ELSE IF Len(values) >= 2
  THEN TrendAndForecast(values, values[Len(values)], values[Len(values) - 1], TRUE)
  ELSE TrendAndForecast(values, values[1], values[1], FALSE)

\* ----------------------------------------------------- Aggregation engine
\* a plain object used as a map label -> total, as the sequence of its entries
\* in insertion order:  map[label] = (map[label] || 0) + amount
HasKey(map, label) == \E i \in 1..Len(map) : map[i].k = label
\* the aggregation as it was before discounts were counted: amounts that are
\* not positive are skipped
AddToSkippingNegative(map, label, amount) ==
  IF amount <= 0 THEN map
  ELSE IF HasKey(map, label)
  THEN [i \in 1..Len(map) |->
          IF map[i].k = label THEN [k |-> label, v |-> map[i].v + amount] ELSE map[i]]
  ELSE Append(map, [k |-> label, v |-> amount])
AddTo(map, label, amount) ==
  IF HasKey(map, label)
  THEN [i \in 1..Len(map) |->
          IF map[i].k = label THEN [k |-> label, v |-> map[i].v + amount] ELSE map[i]]
  ELSE Append(map, [k |-> label, v |-> amount])
ValueAt(map, label) == map[CHOOSE i \in 1..Len(map) : map[i].k = label].v
Keys(map) == [i \in 1..Len(map) |-> map[i].k]

\* String(n).padStart(2, '0') and String(year) for a four-digit year
Pad2(n) == <<Digits[(n \div 10) + 1], Digits[(n % 10) + 1]>>
Year4(y) ==
  <<Digits[(y \div 1000) + 1], Digits[((y \div 100) % 10) + 1],
    Digits[((y \div 10) % 10) + 1], Digits[(y % 10) + 1]>>

\* the month label of an item (lines 1341-1352); <<>> when none is derivable
MonthOf(item, engine) ==
  LET period == Get(item, "invoice_period")
      start == Get(item, "start")
  IN  IF Truthy(period) THEN period.s
      ELSE IF Truthy(start) /\ DateFromValue(start, engine).ok
      THEN Year4(DateFromValue(start, engine).y) \o <<"-">> \o Pad2(DateFromValue(start, engine).m)
      ELSE <<>>

\* a || b || ... || fallback over the fields of an item
RECURSIVE FirstTruthy(_, _, _)
FirstTruthy(item, fields, fallback) ==
  IF fields = <<>> THEN fallback
  ELSE IF Truthy(Get(item, Head(fields))) THEN Get(item, Head(fields)).s
  ELSE FirstTruthy(item, Tail(fields), fallback)

\* the category label of an item (lines 1359-1364)
CategoryFields == <<"category", "name", "product", "description">>
\* the category label without the special handling of discounts
CategoryOfChainOnly(item) == FirstTruthy(item, CategoryFields, <<"U", "n", "k", "n", "o", "w", "n">>)
CategoryOf(item) ==
  IF isDiscountItem(item) THEN categorizeDiscountItem(item)
  ELSE FirstTruthy(item, CategoryFields, <<"U", "n", "k", "n", "o", "w", "n">>)

\* the project label of an item (line 1371)
ProjectOf(item) == FirstTruthy(item, <<"project_name">>, <<"U", "n", "a", "s", "s", "i", "g", "n", "e", "d">>)

\* the product label of an item (lines 1375-1380)
ProductFields == <<"product", "name", "type">>
ProductOf(item) ==
  IF isDiscountItem(item) THEN categorizeDiscountItem(item)
  ELSE FirstTruthy(item, ProductFields, <<"U", "n", "k", "n", "o", "w", "n">>)

\* the accumulators before the forEach of line 1314
EmptyTotals ==
  [monthlySpend |-> <<>>, categorySpend |-> <<>>, projectSpend |-> <<>>,
   productSpend |-> <<>>, totalAmount |-> 0, validItemCount |-> 0,
   discountItemCount |-> 0, totalDiscountAmount |-> 0]

\* one iteration of the forEach callback (lines 1314-1386)
\* the forEach callback that leaves discounts out of the total
AddAmountChargesOnly(acc, amount, month, category, project, product) ==
  [monthlySpend |-> IF month # <<>> THEN AddTo(acc.monthlySpend, month, amount)
                    ELSE acc.monthlySpend,
   categorySpend |-> IF category # <<>> THEN AddTo(acc.categorySpend, category, amount)
                     ELSE acc.categorySpend,
   projectSpend |-> AddTo(acc.projectSpend, project, amount),
   productSpend |-> AddTo(acc.productSpend, product, amount),
   totalAmount |-> acc.totalAmount + (IF amount > 0 THEN amount ELSE 0),
   validItemCount |-> acc.validItemCount + 1,
   discountItemCount |-> acc.discountItemCount + (IF amount < 0 THEN 1 ELSE 0),
   totalDiscountAmount |-> acc.totalDiscountAmount + (IF amount < 0 THEN amount ELSE 0)]
AddAmount(acc, amount, month, category, project, product) ==
      [monthlySpend |-> IF month # <<>> THEN AddTo(acc.monthlySpend, month, amount)
                        ELSE acc.monthlySpend,
       categorySpend |-> IF category # <<>> THEN AddTo(acc.categorySpend, category, amount)
                         ELSE acc.categorySpend,
       projectSpend |-> AddTo(acc.projectSpend, project, amount),
       productSpend |-> AddTo(acc.productSpend, product, amount),
       totalAmount |-> acc.totalAmount + amount,
       validItemCount |-> acc.validItemCount + 1,
       discountItemCount |-> acc.discountItemCount + (IF amount < 0 THEN 1 ELSE 0),
       totalDiscountAmount |-> acc.totalDiscountAmount + (IF amount < 0 THEN amount ELSE 0)]
AddLineItem(acc, item, engine) ==
  AddAmount(acc, extractMonetaryValue(item), MonthOf(item, engine), CategoryOf(item),
            ProjectOf(item), ProductOf(item))

RECURSIVE AddLineItems(_, _, _, _)
AddLineItems(acc, items, i, engine) ==
  IF i > Len(items) THEN acc
  ELSE AddLineItems(AddLineItem(acc, items[i], engine), items, i + 1, engine)

\* the leftmost match of /([A-Za-z]+)\s+(\d{4})/ : the start of the word, or 0
RECURSIVE LetterRun(_, _)
LetterRun(s, i) ==
  IF i <= Len(s) /\ IsLetter(s[i]) THEN 1 + LetterRun(s, i + 1) ELSE 0
RECURSIVE SpaceRun(_, _)
SpaceRun(s, i) ==
  IF i <= Len(s) /\ s[i] = " " THEN 1 + SpaceRun(s, i + 1) ELSE 0
MonthYearMatchesAt(s, i) ==
  LET after == i + LetterRun(s, i)
      digitsAt == after + SpaceRun(s, after)
  IN  LetterRun(s, i) >= 1 /\ SpaceRun(s, after) >= 1 /\ DigitRun(s, digitsAt) >= 4
MonthYearMatch(s) ==
  IF \E i \in 1..Len(s) : MonthYearMatchesAt(s, i)
  THEN CHOOSE i \in 1..Len(s) :
         MonthYearMatchesAt(s, i) /\ \A j \in 1..(i - 1) : ~MonthYearMatchesAt(s, j)
  ELSE 0

monthNames ==
  <<<<"j", "a", "n", "u", "a", "r", "y">>, <<"f", "e", "b", "r", "u", "a", "r", "y">>, <<"m", "a", "r", "c", "h">>, <<"a", "p", "r", "i", "l">>, <<"m", "a", "y">>, <<"j", "u", "n", "e">>, <<"j", "u", "l", "y">>,
    <<"a", "u", "g", "u", "s", "t">>, <<"s", "e", "p", "t", "e", "m", "b", "e", "r">>, <<"o", "c", "t", "o", "b", "e", "r">>, <<"n", "o", "v", "e", "m", "b", "e", "r">>, <<"d", "e", "c", "e", "m", "b", "e", "r">>>>

\* parseMonthPeriod (lines 1524-1557)
parseMonthPeriod(periodStr, engine) ==
  LET at == MonthYearMatch(periodStr)
      word == ToLowerCase(SubSeq(periodStr, at, at + LetterRun(periodStr, at) - 1))
      yearAt == at + LetterRun(periodStr, at)
                  + SpaceRun(periodStr, at + LetterRun(periodStr, at))
      month == IndexIn(word, monthNames)
  IN  IF periodStr = <<>> THEN [ok |-> TRUE, t |-> 0, y |-> 1970, m |-> 1]
      ELSE IF IsYearMonth(periodStr) THEN DateFromString(periodStr \o <<"-", "0", "1">>, engine)
      ELSE IF at # 0 /\ month # 0
      THEN MakeDate(DigitsValue(periodStr, yearAt, yearAt + 3), month, 1, 0)
      ELSE DateFromString(periodStr, engine)

\* the comparator of the month sort: dateA - dateB, and NaN counts as +0
CompareMonths(a, b, engine) ==
  IF parseMonthPeriod(a, engine).ok /\ parseMonthPeriod(b, engine).ok
  THEN parseMonthPeriod(a, engine).t - parseMonthPeriod(b, engine).t
  ELSE 0

\* Array.prototype.sort (stable): insertion of each key behind the keys that
\* do not compare greater
RECURSIVE InsertMonth(_, _, _)
InsertMonth(sorted, key, engine) ==
  IF sorted = <<>> THEN <<key>>
  ELSE IF CompareMonths(sorted[Len(sorted)], key, engine) > 0
       THEN Append(InsertMonth(SubSeq(sorted, 1, Len(sorted) - 1), key, engine),
                   sorted[Len(sorted)])
       ELSE Append(sorted, key)
RECURSIVE SortMonths(_, _, _)
SortMonths(keys, n, engine) ==
  IF n = 0 THEN <<>>
  ELSE InsertMonth(SortMonths(keys, n - 1, engine), keys[n], engine)

\* monthlyData of a map month -> total (lines 1406-1416)
MonthlySeries(monthlySpend, sortedMonths) ==
  [labels |-> sortedMonths,
   values |-> [i \in 1..Len(sortedMonths) |-> ValueAt(monthlySpend, sortedMonths[i])]]
MonthlyData(monthlySpend, engine) ==
  MonthlySeries(monthlySpend, SortMonths(Keys(monthlySpend), Len(monthlySpend), engine))

createEmptyVisualizationData ==
  [monthlyData |-> [labels |-> <<>>, values |-> <<>>],
   categoryData |-> <<[k |-> <<"N", "o", " ", "D", "a", "t", "a">>, v |-> 0]>>,
   projectData |-> <<[k |-> <<"N", "o", " ", "D", "a", "t", "a">>, v |-> 0]>>,
   productData |-> <<[k |-> <<"N", "o", " ", "D", "a", "t", "a">>, v |-> 0]>>,
   summary |-> [totalAmount |-> 0, invoiceCount |-> 0, totalItems |-> 0,
                discountItems |-> 0, totalDiscountAmount |-> 0,
                trendText |-> TrendUnknown, forecastAmount |-> Exact(Whole(0)),
                confidenceText |-> Confidence("No data available", 0, 0)]]

\* the trendText, forecastAmount and confidenceText of a summary (lines
\* 1415-1416 and 1501-1502): calculateTrendAndForecast of the monthly series.
\* It is evaluated here for a series of at most one month; for a longer one
\* the summary holds the application itself, and SpecTrend evaluates the
\* function on series of small totals
Applied(monthly, itemCount) ==
  [op |-> "calculateTrendAndForecast", labels |-> monthly.labels, values |-> monthly.values,
   itemCount |-> itemCount]
Forecasting(monthly, itemCount) ==
  IF Len(monthly.values) <= 1
  THEN calculateTrendAndForecast(monthly.labels, monthly.values, itemCount)
  ELSE [trendText |-> Applied(monthly, itemCount), forecastAmount |-> Applied(monthly, itemCount),
        confidenceText |-> Applied(monthly, itemCount)]
WithForecast(data, forecast) ==
  [data EXCEPT !.summary = [totalAmount |-> data.summary.totalAmount,
                            invoiceCount |-> data.summary.invoiceCount,
                            totalItems |-> data.summary.totalItems,
                            discountItems |-> data.summary.discountItems,
                            totalDiscountAmount |-> data.summary.totalDiscountAmount,
                            trendText |-> forecast.trendText,
                            forecastAmount |-> forecast.forecastAmount,
                            confidenceText |-> forecast.confidenceText]]

\* one iteration of processInvoiceTotals' forEach (lines 1451-1480)
AddInvoiceTotal(acc, item) ==
  LET uuid == Get(item, "invoice_uuid")
      period == Get(item, "invoice_period")
      raw == Get(item, "invoice_amount")
      amount == IF ~Truthy(raw) THEN Number(0)
                ELSE IF raw.t = "str" THEN ParseFloatStr(Clean(raw.s))
                ELSE Number(raw.n)
  IN  IF ~Truthy(uuid) \/ ~Truthy(period) THEN acc
      ELSE IF uuid \in acc.invoices THEN acc
      ELSE IF ~amount.ok THEN acc
      ELSE [invoices |-> acc.invoices \cup {uuid},
            invoiceAmounts |-> AddTo(acc.invoiceAmounts, period.s, amount.v),
            totalAmount |-> acc.totalAmount + amount.v]

RECURSIVE AddInvoiceTotals(_, _, _)
AddInvoiceTotals(acc, items, i) ==
  IF i > Len(items) THEN acc
  ELSE AddInvoiceTotals(AddInvoiceTotal(acc, items[i]), items, i + 1)

\* processInvoiceTotals (lines 1441-1521), the fallback without valid items
InvoiceTotalsData(acc, monthly, lineItems) ==
      IF acc.totalAmount = 0 /\ \A i \in 1..Len(monthly.values) : monthly.values[i] = 0
      THEN createEmptyVisualizationData
      ELSE WithForecast(
           [monthlyData |-> monthly,
            categoryData |-> <<[k |-> <<"A", "l", "l", " ", "S", "e", "r", "v", "i", "c", "e", "s">>, v |-> acc.totalAmount]>>,
            projectData |-> <<[k |-> <<"A", "l", "l", " ", "P", "r", "o", "j", "e", "c", "t", "s">>, v |-> acc.totalAmount]>>,
            productData |-> <<[k |-> <<"A", "l", "l", " ", "P", "r", "o", "d", "u", "c", "t", "s">>, v |-> acc.totalAmount]>>,
            summary |-> [totalAmount |-> acc.totalAmount,
                         invoiceCount |-> Cardinality(acc.invoices),
                         totalItems |-> Len(lineItems),
                         discountItems |-> 0, totalDiscountAmount |-> 0]],
           Forecasting(monthly, Cardinality(acc.invoices)))
InvoiceTotalsOf(acc, lineItems, engine) ==
  InvoiceTotalsData(acc, MonthlyData(acc.invoiceAmounts, engine), lineItems)
processInvoiceTotals(lineItems, engine) ==
  InvoiceTotalsOf(AddInvoiceTotals([invoices |-> {}, invoiceAmounts |-> <<>>, totalAmount |-> 0],
                                   lineItems, 1),
                  lineItems, engine)

\* processCSVDataForVisualizations (lines 1285-1438); timeRange "none" is null
\* an aggregation without the fallback of lines 1397-1404: the totals as
\* accumulated, also when no item was counted
VisualizationDataNoFallback(acc, monthly, itemsToProcess, engine) ==
      WithForecast(
           [monthlyData |-> monthly,
            categoryData |-> acc.categorySpend,
            projectData |-> acc.projectSpend,
            productData |-> acc.productSpend,
            summary |-> [totalAmount |-> acc.totalAmount,
                         invoiceCount |-> Len(acc.monthlySpend),
                         totalItems |-> acc.validItemCount,
                         discountItems |-> acc.discountItemCount,
                         totalDiscountAmount |-> acc.totalDiscountAmount]],
           Forecasting(monthly, acc.validItemCount))
VisualizationData(acc, monthly, itemsToProcess, engine) ==
      IF acc.validItemCount = 0 THEN processInvoiceTotals(itemsToProcess, engine)
      ELSE WithForecast(
           [monthlyData |-> monthly,
            categoryData |-> acc.categorySpend,
            projectData |-> acc.projectSpend,
            productData |-> acc.productSpend,
            summary |-> [totalAmount |-> acc.totalAmount,
                         invoiceCount |-> Len(acc.monthlySpend),
                         totalItems |-> acc.validItemCount,
                         discountItems |-> acc.discountItemCount,
                         totalDiscountAmount |-> acc.totalDiscountAmount]],
           Forecasting(monthly, acc.validItemCount))
VisualizationOf(acc, itemsToProcess, engine) ==
  VisualizationData(acc, MonthlyData(acc.monthlySpend, engine), itemsToProcess, engine)
ProcessItems(itemsToProcess, engine) ==
  VisualizationOf(AddLineItems(EmptyTotals, itemsToProcess, 1, engine), itemsToProcess, engine)
processCSVDataForVisualizations(lineItems, timeRange, today, engine) ==
  IF Len(lineItems) = 0 THEN createEmptyVisualizationData
  ELSE ProcessItems(IF timeRange # "none"
                    THEN filterLineItemsByTimeRange(lineItems, timeRange, today, engine)
                    ELSE lineItems,
                    engine)

\* the most recent invoice of filterInvoicesByTimeRange's reduce (lines 339-343)
InvoiceDate(invoice, engine) ==
  IF Truthy(Get(invoice, "invoice_period"))
  THEN DateFromValue(Get(invoice, "invoice_period"), engine)
  ELSE IF Truthy(Get(invoice, "created_at"))
  THEN DateFromValue(Get(invoice, "created_at"), engine)
  ELSE [ok |-> TRUE, t |-> 0, y |-> 1970, m |-> 1]
RECURSIVE MostRecentInvoice(_, _, _)
MostRecentInvoice(invoices, n, engine) ==
  IF n = 0 THEN invoices[1]
  ELSE LET latest == MostRecentInvoice(invoices, n - 1, engine)
           currentDate == InvoiceDate(invoices[n], engine)
           latestDate == InvoiceDate(latest, engine)
       IN  IF currentDate.ok /\ latestDate.ok /\ currentDate.t > latestDate.t
           THEN invoices[n] ELSE latest

\* the months that filterInvoicesByTimeRange's switch subtracts
InvoiceMonthsBack(selectedRange) ==
  CASE selectedRange = "3months" -> 4
    [] selectedRange = "6months" -> 7
    [] selectedRange = "12months" -> 13
    [] OTHER -> 6

\* filterInvoicesByTimeRange (lines 336-382)
filterInvoicesByTimeRange(invoices, selectedRange, today, engine) ==
  LET mostRecentInvoice == MostRecentInvoice(invoices, Len(invoices), engine)
      mostRecentDate ==
        IF Truthy(Get(mostRecentInvoice, "invoice_period"))
        THEN DateFromValue(Get(mostRecentInvoice, "invoice_period"), engine)
        ELSE DateFromValue(Get(mostRecentInvoice, "created_at"), engine)
      filterInstant ==
        IF selectedRange = "all"
        THEN 2 * (DayFromYearMonth(2000, today.m - 1) + today.d - 1) + today.tod
        ELSE FilterInstant(today, InvoiceMonthsBack(selectedRange))
  IN  IF Len(invoices) = 0 THEN <<>>
      ELSE IF selectedRange = "1month"
      THEN FilterSeq(invoices,
                     [i \in 1..Len(invoices) |->
                        /\ InvoiceDate(invoices[i], engine).ok /\ mostRecentDate.ok
                        /\ InvoiceDate(invoices[i], engine).y = mostRecentDate.y
                        /\ InvoiceDate(invoices[i], engine).m = mostRecentDate.m],
                     1)
      ELSE FilterSeq(invoices,
                     [i \in 1..Len(invoices) |->
                        /\ InvoiceDate(invoices[i], engine).ok
                        /\ InvoiceDate(invoices[i], engine).t >= filterInstant],
                     1)

\* what the three functions leave in the array they were given: none of them
\* assigns to the array, to an element or to a field of an element
LineItemsAfterFilter(lineItems) == lineItems
\* the list after an aggregation that reversed its argument in place
LineItemsReversedInPlace(lineItems) ==
  [i \in 1..Len(lineItems) |-> lineItems[Len(lineItems) + 1 - i]]
LineItemsAfterProcess(lineItems) == lineItems
InvoicesAfterFilter(invoices) == invoices

\* ------------------------------------------------------ Ingestion adapter
\* the object literal of fetchAllInvoiceData's csvData.map (lines 1198-1205)
TagLineItem(item, invoice) ==
  LET date == IF Truthy(Get(invoice, "date")) THEN Get(invoice, "date")
              ELSE Get(invoice, "created_at")
  IN  Put(Put(Put(Put(item, "invoice_uuid", Get(invoice, "invoice_uuid")),
                  "invoice_period", Get(invoice, "invoice_period")),
              "invoice_amount", Get(invoice, "amount")),
          "date", date)

\* Papa.parse(csvText, { header: true, dynamicTyping: true }) as parseCSV calls
\* it (lines 1106-1146): a text is its header fields and its lines of cells;
\* every line is an object keyed by the fields, and a cell that is a decimal
\* numeral is a number, any other cell the string it is
IntegerDigits(cell) == DigitRun(cell, IF cell # <<>> /\ cell[1] = "-" THEN 2 ELSE 1)
NumeralLength(cell, signLength, digits) ==
  IF signLength + digits < Len(cell) /\ cell[signLength + digits + 1] = "."
  THEN signLength + digits + 1 + DigitRun(cell, signLength + digits + 2)
  ELSE signLength + digits
IsNumeral(cell) ==
  /\ IntegerDigits(cell) >= 1
  /\ NumeralLength(cell, IF cell[1] = "-" THEN 1 ELSE 0, IntegerDigits(cell)) = Len(cell)
CsvCell(cell) == IF IsNumeral(cell) THEN Num(ParseFloatStr(cell).v) ELSE Str(cell)
CsvRow(fields, line) == [i \in 1..Len(fields) |-> [k |-> fields[i], v |-> CsvCell(line[i])]]
parseCSV(csvText) ==
  [j \in 1..Len(csvText.lines) |-> CsvRow(csvText.fields, csvText.lines[j])]

\* what fetchInvoiceCSV makes of a response body (lines 1164-1174): [] of a
\* blank text, else the rows parsed
BlankText == [fields |-> <<>>, lines |-> <<>>]
CsvOfText(csvText) == IF csvText = BlankText THEN <<>> ELSE parseCSV(csvText)

\* isDiscountItem throws a TypeError where (item.field || '').toLowerCase()
\* meets a truthy value that is no string (dataUtils.js, lines 517-520),
\* unless the amount is negative and line 514 has returned before
isDiscountItemThrows(item) ==
  /\ ~(extractMonetaryValue(item) < 0)
  /\ \E field \in {"description", "category", "product", "name"} :
       Truthy(Get(item, field)) /\ Get(item, field).t # "str"

\* the callback of fetchAllInvoiceData's invoicesList.map after its await
\* (lines 1196-1214): the items pushed onto allLineItems, and whether the
\* count of the discount items throws
ProcessedItems(csvData, invoice) ==
  [j \in 1..Len(csvData) |-> TagLineItem(csvData[j], invoice)]
CallbackThrows(csvData, invoice) ==
  \E j \in 1..Len(csvData) : isDiscountItemThrows(TagLineItem(csvData[j], invoice))

\* ------------------------------------------------------------ input domain
Entry(key, value) == [k |-> key, v |-> value]

\* the values a CSV row can carry under each column
FieldValues(key) ==
  CASE key = "USD" -> {Str(<<"2", "5", ".", "0", "0">>), Str(<<"-", "$", "1", ",", "7", "7", "9", ".", "5", "5">>), Str(<<"N", "/", "A">>), Num(1800)}
    [] key = "amount" -> {Str(<<"$", "5", ".", "0", "0">>), Num(-300)}
    [] key = "cost" -> {Str(<<"7">>)}
    [] key = "price" -> {Str(<<"3", ".", "0", "0">>)}
    [] key = "charge" -> {Str(<<"-", "1", ".", "2", "5">>)}
    [] key = "fee" -> {Str(<<"$", "3", ".", "0", "0">>)}
    [] key = "hours" -> {Num(74400), Str(<<"-", "7", "4", "4">>)}
    [] key = "invoice_amount" -> {Str(<<"$", "4", ",", "0", "0", "0", ".", "0", "0">>), Num(400000)}
    [] key = "description" -> {Str(<<"C", "o", "n", "t", "r", "a", "c", "t", " ", "D", "i", "s", "c", "o", "u", "n", "t">>), Str(<<"w", "e", "b", "-", "1">>)}
    [] key = "category" -> {Str(<<"i", "a", "a", "s">>), Str(<<"P", "a", "a", "S", " ", "C", "r", "e", "d", "i", "t">>), Str(<<"C", "o", "m", "p", "u", "t", "e">>)}
    [] key = "product" -> {Str(<<"I", "a", "a", "S", " ", "R", "e", "f", "u", "n", "d">>), Str(<<"D", "r", "o", "p", "l", "e", "t", "s">>)}
    [] key = "name" -> {Str(<<"A", "d", "j", "u", "s", "t", "m", "e", "n", "t">>)}
CsvColumns ==
  {"USD", "amount", "cost", "price", "charge", "fee", "hours", "invoice_amount",
   "description", "category", "product", "name"}

\* invoices as the invoice list endpoint returns them
InvoiceJan ==
  <<Entry("invoice_uuid", Str(<<"i", "n", "v", "-", "a">>)), Entry("amount", Str(<<"4", "0", "0", "0", ".", "0", "0">>)),
    Entry("invoice_period", Str(<<"2", "0", "2", "4", "-", "0", "1">>))>>
InvoiceMar ==
  <<Entry("invoice_uuid", Str(<<"2", "2", "-", "a", "7">>)), Entry("amount", Str(<<"2", "7", ".", "1", "3">>)),
    Entry("invoice_period", Str(<<"2", "0", "2", "4", "-", "0", "3">>)),
    Entry("created_at", Str(<<"2", "0", "2", "4", "-", "0", "4", "-", "0", "1", "T", "0", "8", ":", "3", "0", ":", "0", "0", "Z">>))>>
InvoiceOld ==
  <<Entry("invoice_uuid", Str(<<"9", "f", "-", "0", "0">>)), Entry("amount", Str(<<"1", "2", ".", "0", "0">>)),
    Entry("created_at", Str(<<"2", "0", "0", "0", "-", "0", "2", "-", "0", "1", "T", "0", "0", ":", "0", "0", ":", "0", "0", "Z">>))>>
InvoiceUndated ==
  <<Entry("invoice_uuid", Str(<<"c", "4", "-", "e", "1">>)), Entry("amount", Str(<<"7", ".", "0", "0">>))>>
InvoiceCatalogue == {InvoiceJan, InvoiceMar, InvoiceOld, InvoiceUndated}

\* line items as the aggregation receives them
ItemCharge ==
  <<Entry("category", Str(<<"C", "o", "m", "p", "u", "t", "e">>)), Entry("USD", Str(<<"1", "0", "0", ".", "0", "0">>))>>
ItemDiscount ==
  <<Entry("category", Str(<<"C", "o", "m", "p", "u", "t", "e">>)), Entry("description", Str(<<"C", "o", "n", "t", "r", "a", "c", "t", " ", "D", "i", "s", "c", "o", "u", "n", "t">>)),
    Entry("USD", Str(<<"-", "2", "0", ".", "0", "0">>))>>
ItemDroplet ==
  <<Entry("group_description", Str(<<"D", "r", "o", "p", "l", "e", "t", "s">>)), Entry("description", Str(<<"w", "e", "b">>)),
    Entry("start", Str(<<"2", "0", "2", "4", "-", "0", "3", "-", "0", "1", " ", "0", "0", ":", "0", "0", ":", "0", "0", " ", "+", "0", "0", "0", "0">>)), Entry("USD", Str(<<"$", "1", "8", ".", "0", "0">>)),
    Entry("project_name", Str(<<"s", "i", "t", "e">>))>>
ItemCredit ==
  <<Entry("product", Str(<<"I", "a", "a", "S", " ", "C", "r", "e", "d", "i", "t", "s">>)), Entry("USD", Str(<<"-", "$", "1", ",", "7", "7", "9", ".", "5", "5">>)),
    Entry("invoice_period", Str(<<"2", "0", "2", "4", "-", "0", "1", "-", "0", "1">>))>>
ItemZeroDiscount ==
  <<Entry("description", Str(<<"C", "o", "n", "t", "r", "a", "c", "t", " ", "D", "i", "s", "c", "o", "u", "n", "t">>)), Entry("USD", Str(<<"0", ".", "0", "0">>)),
    Entry("invoice_period", Str(<<"2", "0", "2", "4", "-", "0", "1">>))>>
ItemSpaces ==
  <<Entry("name", Str(<<"S", "p", "a", "c", "e", "s">>)), Entry("product", Str(<<"S", "t", "o", "r", "a", "g", "e">>)),
    Entry("amount", Num(500)), Entry("invoice_period", Str(<<"2", "0", "2", "3", "-", "1", "1">>)),
    Entry("project_name", Str(<<"s", "i", "t", "e">>))>>
ItemVolumes ==
  <<Entry("name", Str(<<"V", "o", "l", "u", "m", "e", "s">>)), Entry("USD", Str(<<"2", ".", "5", "0">>)),
    Entry("date", Str(<<"2", "0", "2", "3", "-", "0", "6", "-", "1", "5">>))>>
ItemOld ==
  <<Entry("category", Str(<<"C", "o", "m", "p", "u", "t", "e">>)), Entry("USD", Str(<<"-", "5", ".", "0", "0">>)),
    Entry("invoice_period", Str(<<"2", "0", "2", "3", "-", "0", "1">>))>>
ItemBackups ==
  <<Entry("name", Str(<<"B", "a", "c", "k", "u", "p", "s">>)), Entry("USD", Str(<<"1", ".", "0", "0">>)),
    Entry("date", Str(<<"2", "0", "2", "3", "-", "0", "6", "-", "1", "5">>)), Entry("start", Str(<<"2", "0", "2", "4", "-", "0", "3", "-", "0", "1">>))>>
ItemSnapshots ==
  <<Entry("name", Str(<<"S", "n", "a", "p", "s", "h", "o", "t", "s">>)), Entry("USD", Str(<<"3", ".", "0", "0">>)),
    Entry("invoice_period", Str(<<"2", "0", "2", "4", "-", "2">>))>>
ItemCatalogue ==
  {ItemCharge, ItemDiscount, ItemDroplet, ItemCredit, ItemZeroDiscount, ItemSpaces,
   ItemVolumes, ItemOld, ItemBackups, ItemSnapshots}

\* the current date: the end of a month, and a first of month at and after
\* midnight
Todays ==
  {[y |-> 2024, m |-> 3, d |-> 31, tod |-> 1], [y |-> 2024, m |-> 3, d |-> 1, tod |-> 0],
   [y |-> 2024, m |-> 3, d |-> 1, tod |-> 1]}
Engines == {"lenient", "strict"}

SeqsUpTo(set, n) == UNION {[1..len -> set] : len \in 0..n}


\* response bodies of the CSV endpoint: blank, a header alone, one charge, a
\* charge and a discount, and a charge whose description is a numeral
CsvFields == <<<<"p", "r", "o", "d", "u", "c", "t">>, <<"d", "e", "s", "c", "r", "i", "p", "t", "i", "o", "n">>, <<"U", "S", "D">>>>
LineDroplet == <<<<"D", "r", "o", "p", "l", "e", "t", "s">>, <<"w", "e", "b", "-", "1", " ", "(", "s", "-", "1", "v", "c", "p", "u", "-", "1", "g", "b", ")">>, <<"5", ".", "0", "0">>>>
LineDiscount == <<<<"D", "i", "s", "c", "o", "u", "n", "t">>, <<"C", "o", "n", "t", "r", "a", "c", "t", " ", "D", "i", "s", "c", "o", "u", "n", "t">>, <<"-", "1", ".", "2", "5">>>>
LineNumbered == <<<<"D", "r", "o", "p", "l", "e", "t", "s">>, <<"8", "0", "8", "0">>, <<"5", ".", "0", "0">>>>
CsvTexts ==
  {BlankText,
   [fields |-> CsvFields, lines |-> <<>>],
   [fields |-> CsvFields, lines |-> <<LineDroplet>>],
   [fields |-> CsvFields, lines |-> <<LineDroplet, LineDiscount>>],
   [fields |-> CsvFields, lines |-> <<LineNumbered>>]}

\* the lists fetchInvoicesList returns: up to MaxItems invoices, none twice
IsInjective(list) == \A i, j \in 1..Len(list) : list[i] = list[j] => i = j
InvoiceLists == {list \in SeqsUpTo(InvoiceCatalogue, MaxItems) : IsInjective(list)}
\* monthly series of up to MaxMonths months: the months before the last two
\* follow a pattern, the last two totals are free; in cents
SeriesPatterns == {"flat", "growth", "credits", "idle"}
PatternValue(pattern, i) ==
  CASE pattern = "flat" -> 12
    [] pattern = "growth" -> (IF i <= 3 THEN 5 ELSE IF i <= 6 THEN 10 ELSE IF i <= 9 THEN 20 ELSE 48)
    [] pattern = "credits" -> (IF i % 2 = 1 THEN -10 ELSE 5)
    [] OTHER -> 0
LastTotals == {-10, 0, 5, 10, 20}
SeriesOf(pattern, n, prev, last) ==
  [labels |-> [i \in 1..n |-> i],
   values |-> [i \in 1..n |-> IF i = n THEN last ELSE IF i = n - 1 THEN prev
                                ELSE PatternValue(pattern, i)]]
SeriesCatalogue ==
  {SeriesOf(pattern, n, prev, last) :
     pattern \in SeriesPatterns, n \in 0..MaxMonths, prev \in LastTotals, last \in LastTotals}


\* ------------------------------------------------------------------ the App
\* App.js: the accounts, the data on display and its caches. A value of the
\* component state is an array, an object or undefined; the processed data
\* is kept as the application of processCSVDataForVisualizations to the
\* filtered line items it was computed from
Arr(items) == [is |-> "array", items |-> items]
Undefined == [is |-> "undefined", items |-> <<>>]
Null == [is |-> "null", items |-> <<>>]
Visualizations(filteredLineItems) == [is |-> "object", items |-> filteredLineItems]
\* filterLineItemsByTimeRange as the App calls it (dataUtils.js, line 385:
\* [] for a list that is undefined)
FilteredBy(list, range, today, parser) ==
  IF list.is # "array" THEN <<>>
  ELSE filterLineItemsByTimeRange(list.items, range, today, parser)

\* what the API holds of each account: its invoices and their line items as
\* fetchAllInvoiceData returns them
AccountNames == {"a", "b"}
AppTimeRanges == {"1month", "6months"}
InvoicesOf(name) == IF name = "a" THEN <<InvoiceJan, InvoiceMar>> ELSE <<InvoiceMar>>
LineItemsOf(name) ==
  IF name = "a"
  THEN ProcessedItems(parseCSV([fields |-> CsvFields, lines |-> <<LineDroplet>>]), InvoiceJan)
         \o ProcessedItems(parseCSV([fields |-> CsvFields, lines |-> <<LineDroplet, LineDiscount>>]),
                           InvoiceMar)
  ELSE ProcessedItems(parseCSV([fields |-> CsvFields, lines |-> <<LineDroplet>>]), InvoiceMar)

\* an entry of accountsData, and the value of a key it does not have
AccountData(accountInvoices, items, processed, range) ==
  [invoices |-> accountInvoices, detailedLineItems |-> items, processedData |-> processed,
   timeRange |-> range]
NoAccountData == AccountData(Undefined, Undefined, Undefined, "undefined")
\* the items of an account in localStorage (storageUtils.js): invoices,
\* csvLineItems and processedData, and how long ago csvLineItems was saved:
\* up to 20 hours (fresh), up to 24 (aging) or more (stale). saveData takes
\* three parameters (line 4): the timeRange that the App passes as a fourth
\* is not stored
NoItems == [invoices |-> Undefined, csvLineItems |-> Undefined, processedData |-> Undefined,
            hours |-> "fresh"]
\* the state of the component after construction (lines 52-70)
InitialApp ==
  [accounts |-> <<>>, currentAccountIndex |-> 0, accountsData |-> [name \in AccountNames |-> NoAccountData],
   isLoggedIn |-> FALSE, allInvoices |-> Arr(<<>>), detailedLineItems |-> Arr(<<>>),
   isLoading |-> FALSE, error |-> "", timeRange |-> "6months", processedData |-> Null]
EmptyStorage == [doAccounts |-> <<>>, items |-> [name \in AccountNames |-> NoItems]]

\* saveData(accountId, dataType, data) and loadData(accountId, dataType) of
\* storageUtils.js (lines 4-14 and 46-62), on a storage with room: the item
\* holds data, lastUpdated and accountId, so that it has no timeRange
saveData(storage, accountId, dataType, data, options) ==
  [storage EXCEPT !.items[accountId] =
     [@ EXCEPT ![dataType] = data,
               !.hours = IF dataType = "csvLineItems" THEN "fresh" ELSE @]]
loadData(storage, accountId, dataType) ==
  [data |-> storage.items[accountId][dataType], timeRange |-> "undefined"]
\* clearAccountData (lines 94-112)
clearAccountData(storage, accountId) == [storage EXCEPT !.items[accountId] = NoItems]
\* getCacheStatus (lines 115-138)
getCacheStatus(storage, accountId) ==
  [isCached |-> storage.items[accountId].csvLineItems # Undefined,
   hours |-> storage.items[accountId].hours]

\* the component, the storage and the loads in flight, as a handler leaves them
State(component, storage, pending) ==
  [app |-> component, localStorage |-> storage, loads |-> pending]
\* a call of fetchAllInvoiceData awaited by fetchDataFromAPI, which reads the
\* timeRange of the render it was created in when it goes on
Load(accountId, range, isBackgroundRefresh) ==
  [accountId |-> accountId, timeRange |-> range, isBackgroundRefresh |-> isBackgroundRefresh]

\* fetchDataFromAPI up to its await (lines 172-182)
fetchDataFromAPI(s, accountId, isBackgroundRefresh) ==
  State(IF isBackgroundRefresh THEN s.app
        ELSE [s.app EXCEPT !.isLoading = TRUE, !.error = ""],
        s.localStorage,
        s.loads \cup {Load(accountId, s.app.timeRange, isBackgroundRefresh)})

\* loadAccountData on items of the storage that are cached and not stale
\* (lines 119-163)
UseCachedData(s, accountId, items, freshProcessed) ==
  State([s.app EXCEPT
           !.isLoading = FALSE, !.error = "",
           !.detailedLineItems = items.csvLineItems,
           !.allInvoices = items.invoices,
           !.processedData =
              IF items.processedData # Undefined
                 /\ loadData(s.localStorage, accountId, "processedData").timeRange = s.app.timeRange
              THEN items.processedData ELSE freshProcessed,
           !.accountsData[accountId] =
              AccountData(items.invoices, items.csvLineItems,
                          IF items.processedData # Undefined THEN items.processedData
                          ELSE freshProcessed,
                          s.app.timeRange)],
        IF items.processedData # Undefined
           /\ loadData(s.localStorage, accountId, "processedData").timeRange = s.app.timeRange
        THEN s.localStorage
        ELSE saveData(s.localStorage, accountId, "processedData", freshProcessed, s.app.timeRange),
        IF items.hours = "aging"
        THEN s.loads \cup {Load(accountId, s.app.timeRange, TRUE)} ELSE s.loads)
\* loadAccountData up to its await (lines 106-169)
loadAccountData(s, accountId, today, parser) ==
  IF /\ getCacheStatus(s.localStorage, accountId).isCached
     /\ getCacheStatus(s.localStorage, accountId).hours # "stale"
     /\ s.localStorage.items[accountId].invoices # Undefined
  THEN UseCachedData(s, accountId, s.localStorage.items[accountId],
                     Visualizations(FilteredBy(s.localStorage.items[accountId].csvLineItems,
                                               s.app.timeRange, today, parser)))
  ELSE fetchDataFromAPI(State([s.app EXCEPT !.isLoading = TRUE, !.error = ""],
                              s.localStorage, s.loads),
                        accountId, FALSE)

\* the data of an entry of accountsData goes on display (lines 296-318 and
\* 373-386); the entry is updated where handleAccountSwitch does it
ShowAccountData(component, accountId, entry, freshProcessed, updatesEntry) ==
  [component EXCEPT
     !.allInvoices = entry.invoices,
     !.detailedLineItems = entry.detailedLineItems,
     !.processedData = IF entry.timeRange = component.timeRange
                          /\ (updatesEntry => entry.processedData # Undefined)
                       THEN entry.processedData ELSE freshProcessed,
     !.accountsData[accountId] =
        IF updatesEntry /\ ~(entry.timeRange = component.timeRange
                             /\ entry.processedData # Undefined)
        THEN [entry EXCEPT !.processedData = freshProcessed, !.timeRange = component.timeRange]
        ELSE @]
\* ------------------------------------------------------------------ state
VARIABLES
  engine,     \* the Date parser of the JavaScript engine the code runs on
  now,        \* the current date
  rec,        \* a record, as parsed from a CSV row and tagged by the adapter
  recCall,    \* the last call of a normalizer function on rec
  lineItems,  \* the line item list in hand
  invoices,   \* the invoice list in hand
  call,       \* the last call of a filter or of the aggregation
  monthlySeries,  \* a monthly series: labels and values
  trendCall,  \* the last call of calculateTrendAndForecast on monthlySeries
  fetchAll,      \* where a call of fetchAllInvoiceData is, and what it returned
  invoicesList,  \* its invoicesList
  promises,      \* its promises: where the callback of each invoice is
  allLineItems,  \* its allLineItems
  pages,         \* the invoice list endpoint: the response of every page url
  listCall,      \* where a call of fetchInvoicesList is, and what it returned
  app,           \* the state of the App component
  localStorage,  \* the localStorage of the browser
  loads,         \* the calls of fetchAllInvoiceData that the App awaits
  removal        \* the last handler call, when it was handleRemoveAccount
vars == <<engine, now, rec, recCall, lineItems, invoices, call, monthlySeries, trendCall,
          fetchAll, invoicesList, promises, allLineItems, pages, listCall,
          app, localStorage, loads, removal>>

\* the state of the functions on records and lists, and the rest of the state
listVars == <<engine, now, rec, recCall, lineItems, invoices, call>>
trendVars == <<monthlySeries, trendCall>>
fetchVars == <<fetchAll, invoicesList, promises, allLineItems>>
pageVars == <<pages, listCall>>
appVars == <<app, localStorage, loads, removal>>
rest == <<trendVars, fetchVars, pageVars, appVars>>

NoRecCall == [op |-> "none", ret |-> 0]
NoCall == [op |-> "none", range |-> "none", arg |-> <<>>, ret |-> <<>>]
NoSeries == [labels |-> <<>>, values |-> <<>>]
NoTrendCall == [op |-> "none", ret |-> <<>>]
NoFetch == [at |-> "none", ret |-> [invoices |-> <<>>, lineItems |-> <<>>]]
NoListCall == [at |-> "none", pageUrl |-> 0, fetchedInvoices |-> <<>>, visited |-> <<>>, ret |-> <<>>]
\* handleRemoveAccount(index) as called: the index, and currentAccountIndex
\* and accounts as the call found them
Removal(index, currentAccountIndex, accounts) ==
  [index |-> index, currentAccountIndex |-> currentAccountIndex, accounts |-> accounts]
NoRemoval == Removal(-1, -1, <<>>)
\* fetchInvoicesList is not running
IdlePages == pages = <<>> /\ listCall = NoListCall
\* the App is not mounted
IdleApp == app = InitialApp /\ localStorage = EmptyStorage /\ loads = {} /\ removal = NoRemoval

\* --------------------------------------------------- normalizer on a record
InitRecord ==
  /\ engine = "lenient"
  /\ now = [y |-> 2024, m |-> 3, d |-> 31, tod |-> 1]
  /\ rec = <<>>
  /\ recCall = NoRecCall
  /\ lineItems = <<>>
  /\ invoices = <<>>
  /\ call = NoCall
  /\ monthlySeries = NoSeries
  /\ trendCall = NoTrendCall
  /\ fetchAll = NoFetch
  /\ invoicesList = <<>>
  /\ promises = <<>>
  /\ allLineItems = <<>>
  /\ IdlePages
  /\ IdleApp

\* the CSV parser delivers the next column of the row
AddField(key, value) ==
  /\ Len(rec) < MaxFields
  /\ ~Has(rec, key)
  /\ ~Has(rec, "invoice_uuid")
  /\ rec' = Append(rec, Entry(key, value))
  /\ recCall' = NoRecCall
  /\ UNCHANGED <<engine, now, lineItems, invoices, call, rest>>

\* fetchAllInvoiceData tags the row with its invoice
TagWithInvoice(invoice) ==
  /\ ~Has(rec, "invoice_uuid")
  /\ rec' = TagLineItem(rec, invoice)
  /\ recCall' = NoRecCall
  /\ UNCHANGED <<engine, now, lineItems, invoices, call, rest>>

ExtractMonetaryValue ==
  /\ recCall' = [op |-> "extractMonetaryValue", ret |-> extractMonetaryValue(rec)]
  /\ UNCHANGED <<engine, now, rec, lineItems, invoices, call, rest>>

IsDiscountItem ==
  /\ recCall' = [op |-> "isDiscountItem", ret |-> isDiscountItem(rec)]
  /\ UNCHANGED <<engine, now, rec, lineItems, invoices, call, rest>>

CategorizeDiscountItem ==
  /\ recCall' = [op |-> "categorizeDiscountItem", ret |-> categorizeDiscountItem(rec)]
  /\ UNCHANGED <<engine, now, rec, lineItems, invoices, call, rest>>

NextRecord ==
  \/ \E key \in CsvColumns : \E value \in FieldValues(key) : AddField(key, value)
  \/ \E invoice \in {InvoiceJan, InvoiceMar} : TagWithInvoice(invoice)
  \/ ExtractMonetaryValue
  \/ IsDiscountItem
  \/ CategorizeDiscountItem

SpecRecord == InitRecord /\ [][NextRecord]_vars

\* ------------------------------------------- filters and aggregation on lists
\* one of the three functions is called on a list, and may be called again
\* with the same arguments
Init ==
  /\ engine \in Engines
  /\ now \in Todays
  /\ rec = <<>>
  /\ recCall = NoRecCall
  /\ \/ lineItems \in SeqsUpTo(ItemCatalogue, MaxItems) /\ invoices = <<>>
     \/ lineItems = <<>> /\ invoices \in SeqsUpTo(InvoiceCatalogue, MaxItems)
  /\ call = NoCall
  /\ monthlySeries = NoSeries
  /\ trendCall = NoTrendCall
  /\ fetchAll = NoFetch
  /\ invoicesList = <<>>
  /\ promises = <<>>
  /\ allLineItems = <<>>
  /\ IdlePages
  /\ IdleApp

FilterLineItems(selectedRange) ==
  /\ call.op = "none" \/ (call.op = "filterLineItemsByTimeRange" /\ call.range = selectedRange)
  /\ call' = [op |-> "filterLineItemsByTimeRange", range |-> selectedRange,
              arg |-> lineItems,
              ret |-> filterLineItemsByTimeRange(lineItems, selectedRange, now, engine)]
  /\ lineItems' = LineItemsAfterFilter(lineItems)
  /\ UNCHANGED <<engine, now, rec, recCall, invoices, rest>>

FilterInvoices(selectedRange) ==
  /\ call.op = "none" \/ (call.op = "filterInvoicesByTimeRange" /\ call.range = selectedRange)
  /\ call' = [op |-> "filterInvoicesByTimeRange", range |-> selectedRange,
              arg |-> invoices,
              ret |-> filterInvoicesByTimeRange(invoices, selectedRange, now, engine)]
  /\ invoices' = InvoicesAfterFilter(invoices)
  /\ UNCHANGED <<engine, now, rec, recCall, lineItems, rest>>

ProcessCSV(timeRange) ==
  /\ call.op = "none" \/ (call.op = "processCSVDataForVisualizations" /\ call.range = timeRange)
  /\ call' = [op |-> "processCSVDataForVisualizations", range |-> timeRange,
              arg |-> lineItems,
              ret |-> processCSVDataForVisualizations(lineItems, timeRange, now, engine)]
  /\ lineItems' = LineItemsAfterProcess(lineItems)
  /\ UNCHANGED <<engine, now, rec, recCall, invoices, rest>>

Next ==
  \/ \E selectedRange \in TimeRanges : FilterLineItems(selectedRange)
  \/ \E selectedRange \in TimeRanges : FilterInvoices(selectedRange)
  \/ \E timeRange \in TimeRanges \cup {"none"} : ProcessCSV(timeRange)

Spec == Init /\ [][Next]_vars

\* ------------------------------------------- trend and forecast on a series
\* calculateTrendAndForecast is called on a monthly series
InitTrend ==
  /\ engine = "lenient"
  /\ now = [y |-> 2024, m |-> 3, d |-> 31, tod |-> 1]
  /\ rec = <<>>
  /\ recCall = NoRecCall
  /\ lineItems = <<>>
  /\ invoices = <<>>
  /\ call = NoCall
  /\ monthlySeries \in SeriesCatalogue
  /\ trendCall = NoTrendCall
  /\ fetchAll = NoFetch
  /\ invoicesList = <<>>
  /\ promises = <<>>
  /\ allLineItems = <<>>
  /\ IdlePages
  /\ IdleApp

CalculateTrendAndForecast ==
  /\ trendCall' = [op |-> "calculateTrendAndForecast",
                   ret |-> calculateTrendAndForecast(monthlySeries.labels, monthlySeries.values,
                                                     Len(monthlySeries.values))]
  /\ UNCHANGED <<listVars, monthlySeries, fetchVars, pageVars, appVars>>

NextTrend == CalculateTrendAndForecast

SpecTrend == InitTrend /\ [][NextTrend]_vars

\* ------------------------------------------------ fetch of all invoice data
\* fetchAllInvoiceData (lines 1182-1233) runs on the event loop: a step is a
\* network event together with the continuations it wakes
InitFetch ==
  /\ engine = "lenient"
  /\ now = [y |-> 2024, m |-> 3, d |-> 31, tod |-> 1]
  /\ rec = <<>>
  /\ recCall = NoRecCall
  /\ lineItems = <<>>
  /\ invoices = <<>>
  /\ call = NoCall
  /\ monthlySeries = NoSeries
  /\ trendCall = NoTrendCall
  /\ fetchAll = [at |-> "fetchInvoicesList", ret |-> NoFetch.ret]
  /\ invoicesList = <<>>
  /\ promises = <<>>
  /\ allLineItems = <<>>
  /\ IdlePages
  /\ IdleApp

\* a callback of the map: where it is, what fetchInvoiceCSV got of the
\* server (nothing, a response that is ok, or its text) and the csvData it
\* returned
Fetching == [at |-> "fetch", got |-> "nothing", csvData |-> <<>>]
Reading == [at |-> "text", got |-> "response", csvData |-> <<>>]
Settled(threw, got, csvData) ==
  [at |-> IF threw THEN "rejected" ELSE "fulfilled", got |-> got, csvData |-> csvData]
\* the catch of line 1229, taken when a promise of Promise.all rejects
Caught == [at |-> "returned", ret |-> [invoices |-> <<>>, lineItems |-> <<>>]]

\* fetchInvoicesList resolves (line 1185); the map starts the fetch of every
\* invoice (lines 1192-1194) and the function awaits Promise.all (line 1217)
InvoicesListArrives(list) ==
  /\ fetchAll.at = "fetchInvoicesList"
  /\ invoicesList' = list
  /\ promises' = [i \in 1..Len(list) |-> Fetching]
  /\ fetchAll' = [fetchAll EXCEPT !.at = "Promise.all"]
  /\ UNCHANGED <<listVars, trendVars, allLineItems, pageVars, appVars>>

\* the callback of invoice i goes on with csvData (lines 1196-1214)
Continue(i, got, csvData) ==
  /\ allLineItems' = allLineItems \o ProcessedItems(csvData, invoicesList[i])
  /\ promises' = [promises EXCEPT
                    ![i] = Settled(CallbackThrows(csvData, invoicesList[i]), got, csvData)]
  /\ fetchAll' = IF CallbackThrows(csvData, invoicesList[i]) /\ fetchAll.at = "Promise.all"
                 THEN Caught ELSE fetchAll
  /\ UNCHANGED <<listVars, trendVars, invoicesList, pageVars, appVars>>

\* the fetch of invoice i rejects, or its response is not ok (line 1162):
\* fetchInvoiceCSV logs and returns [] (lines 1175-1178)
FetchFails(i) ==
  /\ i \in 1..Len(promises)
  /\ promises[i].at = "fetch"
  /\ Continue(i, "nothing", <<>>)

\* the response of invoice i arrives and is ok; its text is awaited (line 1164)
ResponseArrives(i) ==
  /\ i \in 1..Len(promises)
  /\ promises[i].at = "fetch"
  /\ promises' = [promises EXCEPT ![i] = Reading]
  /\ UNCHANGED <<listVars, trendVars, fetchAll, invoicesList, allLineItems, pageVars, appVars>>

\* reading the body of the response of invoice i fails
TextFails(i) ==
  /\ i \in 1..Len(promises)
  /\ promises[i].at = "text"
  /\ Continue(i, "response", <<>>)

\* the body of the response of invoice i arrives (lines 1164-1174)
TextArrives(i, csvText) ==
  /\ i \in 1..Len(promises)
  /\ promises[i].at = "text"
  /\ Continue(i, "text", CsvOfText(csvText))

\* every promise is fulfilled: Promise.all resolves and the function returns
\* (lines 1217-1228)
Return ==
  /\ fetchAll.at = "Promise.all"
  /\ \A i \in 1..Len(promises) : promises[i].at = "fulfilled"
  /\ fetchAll' = [at |-> "returned", ret |-> [invoices |-> invoicesList, lineItems |-> allLineItems]]
  /\ UNCHANGED <<listVars, trendVars, invoicesList, promises, allLineItems, pageVars, appVars>>

NextFetch ==
  \/ \E list \in InvoiceLists : InvoicesListArrives(list)
  \/ \E i \in 1..MaxItems : FetchFails(i)
  \/ \E i \in 1..MaxItems : ResponseArrives(i)
  \/ \E i \in 1..MaxItems : TextFails(i)
  \/ \E i \in 1..MaxItems : \E csvText \in CsvTexts : TextArrives(i, csvText)
  \/ Return

SpecFetch == InitFetch /\ [][NextFetch]_vars

\* --------------------------------------------- pagination of the invoice list
\* fetchInvoicesList (lines 1236-1282). A page url is a number, the first
\* request going to url 1; a response is whether it is ok (a request that
\* rejects is a response that is not ok: both throw into the catch of line
\* 1278), the invoices of its body, the links.pages.next of its body (0 for
\* none) and its Link header, a list of <url>; rel="..." entries
PageInvoices(url) ==
  CASE url = 1 -> <<InvoiceJan>>
    [] url = 2 -> <<InvoiceMar, InvoiceOld>>
    [] OTHER -> <<>>
LinkHeaders ==
  {<<>>, <<[url |-> 1, rel |-> "last"]>>}
    \cup {<<[url |-> u, rel |-> "next"]>> : u \in 1..MaxPages}
    \cup {<<[url |-> 1, rel |-> "prev"], [url |-> u, rel |-> "next"]>> : u \in 2..MaxPages}
\* the responses of a url: one that is not ok, of which nothing is read, and
\* the ones that are ok; the first page of an account without invoices has
\* no invoice
PageResponses(url) ==
  {[ok |-> FALSE, invoices |-> <<>>, next |-> 0, link |-> <<>>]}
    \cup [ok : {TRUE},
          invoices : IF url = 1 THEN {PageInvoices(url), <<>>} ELSE {PageInvoices(url)},
          next : 0..MaxPages, link : LinkHeaders]
RECURSIVE EndpointsUpTo(_)
EndpointsUpTo(n) ==
  IF n = 0 THEN {<<>>}
  ELSE {Append(endpoint, response) :
          endpoint \in EndpointsUpTo(n - 1), response \in PageResponses(n)}
Endpoints == EndpointsUpTo(MaxPages)

\* linkHeader.match(/<([^>]+)>;\s*rel="next"/): the url of the first entry
\* whose rel is next, 0 without a match (lines 1265-1270)
RECURSIVE RelNext(_, _)
RelNext(link, i) ==
  IF i > Len(link) THEN 0
  ELSE IF link[i].rel = "next" THEN link[i].url
  ELSE RelNext(link, i + 1)
\* a pagination that reads the Link header alone
NextPageUrlOfHeader(response) == RelNext(response.link, 1)
\* the next pageUrl after a response, 0 for hasMorePages = false (lines
\* 1260-1274): the next of the body, else that of the Link header
NextPageUrl(response) ==
  IF response.next # 0 THEN response.next ELSE RelNext(response.link, 1)

InitPages ==
  /\ engine = "lenient"
  /\ now = [y |-> 2024, m |-> 3, d |-> 31, tod |-> 1]
  /\ rec = <<>>
  /\ recCall = NoRecCall
  /\ lineItems = <<>>
  /\ invoices = <<>>
  /\ call = NoCall
  /\ monthlySeries = NoSeries
  /\ trendCall = NoTrendCall
  /\ fetchAll = NoFetch
  /\ invoicesList = <<>>
  /\ promises = <<>>
  /\ allLineItems = <<>>
  /\ pages \in Endpoints
  /\ listCall = [at |-> "fetch", pageUrl |-> 1, fetchedInvoices |-> <<>>, visited |-> <<>>,
                 ret |-> <<>>]
  /\ IdleApp

\* the response of the page awaited arrives and is ok (lines 1248-1275): its
\* invoices are appended, and the loop goes on with the next url or the
\* function returns fetchedInvoices (line 1277)
PageArrives ==
  /\ listCall.at = "fetch"
  /\ Len(listCall.visited) <= MaxPages
  /\ pages[listCall.pageUrl].ok
  /\ listCall' =
       [at |-> IF NextPageUrl(pages[listCall.pageUrl]) # 0 THEN "fetch" ELSE "returned",
        pageUrl |-> IF NextPageUrl(pages[listCall.pageUrl]) # 0
                    THEN NextPageUrl(pages[listCall.pageUrl]) ELSE listCall.pageUrl,
        fetchedInvoices |-> listCall.fetchedInvoices \o pages[listCall.pageUrl].invoices,
        visited |-> Append(listCall.visited, listCall.pageUrl),
        ret |-> IF NextPageUrl(pages[listCall.pageUrl]) # 0 THEN <<>>
                ELSE listCall.fetchedInvoices \o pages[listCall.pageUrl].invoices]
  /\ UNCHANGED <<listVars, trendVars, fetchVars, pages, appVars>>

\* the request of the page awaited rejects, or its response is not ok (line
\* 1254): the catch logs and returns [] (lines 1278-1281)
PageFails ==
  /\ listCall.at = "fetch"
  /\ Len(listCall.visited) <= MaxPages
  /\ ~pages[listCall.pageUrl].ok
  /\ listCall' = [listCall EXCEPT !.at = "returned",
                                  !.visited = Append(listCall.visited, listCall.pageUrl),
                                  !.ret = <<>>]
  /\ UNCHANGED <<listVars, trendVars, fetchVars, pages, appVars>>

NextPages ==
  \/ PageArrives
  \/ PageFails

SpecPages == InitPages /\ [][NextPages]_vars
\* a fetch that is awaited settles: the event loop runs the continuation
SpecPagesLive == SpecPages /\ WF_vars(NextPages)

\* ------------------------------------------------------- the App at run time
\* a step is a handler of the App, or a call of fetchAllInvoiceData that
\* settles together with the continuation of fetchDataFromAPI it wakes
InitApp ==
  /\ engine = "lenient"
  /\ now = [y |-> 2024, m |-> 3, d |-> 31, tod |-> 1]
  /\ rec = <<>>
  /\ recCall = NoRecCall
  /\ lineItems = <<>>
  /\ invoices = <<>>
  /\ call = NoCall
  /\ monthlySeries = NoSeries
  /\ trendCall = NoTrendCall
  /\ fetchAll = NoFetch
  /\ invoicesList = <<>>
  /\ promises = <<>>
  /\ allLineItems = <<>>
  /\ IdlePages
  /\ app = InitialApp
  /\ localStorage = EmptyStorage
  /\ loads = {}
  /\ removal = NoRemoval

\* the Dashboard throws while it renders (Dashboard.js, line 196:
\* detailedLineItems.length) and React unmounts the App: no handler runs any
\* more, and a continuation sets no state
Crashed ==
  /\ app.isLoggedIn
  /\ ~app.isLoading
  /\ app.processedData \notin {Null, Undefined}
  /\ app.detailedLineItems = Undefined
NamesOf(accounts) == {accounts[i] : i \in 1..Len(accounts)}
\* accounts.splice(index, 1) on a copy, index 0-based
Spliced(accounts, index) ==
  [i \in 1..(Len(accounts) - 1) |-> IF i <= index THEN accounts[i] ELSE accounts[i + 1]]

\* the handler or continuation leaves the state s
BecomesAfter(s, removalCalled) ==
  /\ Cardinality(s.loads) <= MaxLoads
  /\ app' = s.app
  /\ localStorage' = s.localStorage
  /\ loads' = s.loads
  /\ removal' = removalCalled
  /\ UNCHANGED <<listVars, trendVars, fetchVars, pageVars>>
Becomes(s) == BecomesAfter(s, NoRemoval)

\* handleAddAccount (lines 264-282), from the LoginForm or the AccountSelector
AddAccount(name) ==
  /\ ~Crashed
  /\ name \notin NamesOf(app.accounts)
  /\ Becomes(loadAccountData(
       State([app EXCEPT !.accounts = Append(@, name),
                         !.currentAccountIndex = IF Len(app.accounts) = 0 THEN 0 ELSE @,
                         !.isLoggedIn = TRUE],
             [localStorage EXCEPT !.doAccounts = Append(app.accounts, name)],
             loads),
       name, now, engine))

\* handleAccountSwitch (lines 285-337) on the data of the memory cache
SwitchToCached(index, accountId) ==
  State(ShowAccountData([app EXCEPT !.currentAccountIndex = index], accountId,
                        app.accountsData[accountId],
                        Visualizations(FilteredBy(app.accountsData[accountId].detailedLineItems,
                                                  app.timeRange, now, engine)),
                        TRUE),
        localStorage,
        IF getCacheStatus(localStorage, accountId).isCached
           /\ getCacheStatus(localStorage, accountId).hours = "stale"
        THEN loads \cup {Load(accountId, app.timeRange, TRUE)} ELSE loads)
\* handleAccountSwitch, on another account of the AccountSelector
SwitchAccount(index) ==
  /\ app.isLoggedIn /\ ~Crashed
  /\ index >= 0 /\ index < Len(app.accounts)
  /\ index # app.currentAccountIndex
  /\ Becomes(IF app.accountsData[app.accounts[index + 1]] # NoAccountData
             THEN SwitchToCached(index, app.accounts[index + 1])
             ELSE loadAccountData(State([app EXCEPT !.currentAccountIndex = index],
                                        localStorage, loads),
                                  app.accounts[index + 1], now, engine))

\* a removal that leaves currentAccountIndex alone when an account before
\* the current one goes
AfterRemovalKeepsIndex(s, index, updatedAccounts) ==
  IF Len(updatedAccounts) = 0
  THEN State([s.app EXCEPT !.isLoggedIn = FALSE], s.localStorage, s.loads)
  ELSE IF index = app.currentAccountIndex
  THEN IF app.accountsData[updatedAccounts[1]] # NoAccountData
       THEN State(ShowAccountData([s.app EXCEPT !.currentAccountIndex = 0], updatedAccounts[1],
                                  app.accountsData[updatedAccounts[1]],
                                  Visualizations(FilteredBy(
                                    app.accountsData[updatedAccounts[1]].detailedLineItems,
                                    app.timeRange, now, engine)),
                                  FALSE),
                  s.localStorage, s.loads)
       ELSE loadAccountData(State([s.app EXCEPT !.currentAccountIndex = 0],
                                  s.localStorage, s.loads),
                            updatedAccounts[1], now, engine)
  ELSE s
\* handleRemoveAccount (lines 340-399) after the removal (lines 362-398), on
\* the accounts that are left
AfterRemoval(s, index, updatedAccounts) ==
  IF Len(updatedAccounts) = 0
  THEN State([s.app EXCEPT !.isLoggedIn = FALSE], s.localStorage, s.loads)
  ELSE IF index = app.currentAccountIndex
  THEN IF app.accountsData[updatedAccounts[1]] # NoAccountData
       THEN State(ShowAccountData([s.app EXCEPT !.currentAccountIndex = 0], updatedAccounts[1],
                                  app.accountsData[updatedAccounts[1]],
                                  Visualizations(FilteredBy(
                                    app.accountsData[updatedAccounts[1]].detailedLineItems,
                                    app.timeRange, now, engine)),
                                  FALSE),
                  s.localStorage, s.loads)
       ELSE loadAccountData(State([s.app EXCEPT !.currentAccountIndex = 0],
                                  s.localStorage, s.loads),
                            updatedAccounts[1], now, engine)
  ELSE IF index < app.currentAccountIndex
  THEN State([s.app EXCEPT !.currentAccountIndex = app.currentAccountIndex - 1],
             s.localStorage, s.loads)
  ELSE s
\* handleRemoveAccount, on an account of the AccountSelector
RemoveAccount(index) ==
  /\ app.isLoggedIn /\ ~Crashed
  /\ index >= 0 /\ index < Len(app.accounts)
  /\ BecomesAfter(AfterRemoval(
       State([app EXCEPT !.accounts = Spliced(app.accounts, index),
                         !.accountsData[app.accounts[index + 1]] = NoAccountData],
             clearAccountData([localStorage EXCEPT !.doAccounts = Spliced(app.accounts, index)],
                              app.accounts[index + 1]),
             loads),
       index, Spliced(app.accounts, index)),
       Removal(index, app.currentAccountIndex, app.accounts))

\* handleLogout (lines 402-413)
Logout ==
  /\ app.isLoggedIn /\ ~Crashed
  /\ Becomes(State([app EXCEPT !.accounts = <<>>, !.currentAccountIndex = 0,
                               !.isLoggedIn = FALSE, !.allInvoices = Arr(<<>>),
                               !.detailedLineItems = Arr(<<>>), !.processedData = Null,
                               !.accountsData = [name \in AccountNames |-> NoAccountData]],
                   [localStorage EXCEPT !.doAccounts = <<>>],
                   loads))

\* handleRefresh (lines 416-422)
Refresh ==
  /\ app.isLoggedIn /\ ~Crashed
  /\ Len(app.accounts) > 0 /\ app.currentAccountIndex < Len(app.accounts)
  /\ Becomes(fetchDataFromAPI(State(app, localStorage, loads),
                              app.accounts[app.currentAccountIndex + 1], FALSE))

\* handleTimeRangeChange (lines 443-473) with the line items on display
Reprocessed(newRange, accountId, newProcessedData) ==
  State([app EXCEPT !.timeRange = newRange,
                    !.processedData = newProcessedData,
                    !.accountsData[accountId] =
                       [@ EXCEPT !.processedData = newProcessedData, !.timeRange = newRange]],
        saveData(localStorage, accountId, "processedData", newProcessedData, newRange),
        loads)
\* handleTimeRangeChange, on another range of the Dashboard
TimeRangeChange(newRange) ==
  /\ app.isLoggedIn /\ ~Crashed
  /\ newRange # app.timeRange
  /\ Becomes(IF /\ Len(app.accounts) > 0
                /\ app.currentAccountIndex < Len(app.accounts)
                /\ Len(app.detailedLineItems.items) > 0
             THEN Reprocessed(newRange, app.accounts[app.currentAccountIndex + 1],
                              Visualizations(FilteredBy(app.detailedLineItems, newRange,
                                                        now, engine)))
             ELSE State([app EXCEPT !.timeRange = newRange], localStorage, loads))

\* fetchDataFromAPI goes on with the invoices and line items of the account
\* (lines 182-227)
DataArrived(load, fetchedInvoices, fetchedLineItems, processed) ==
  State(IF Crashed THEN app
        ELSE [app EXCEPT
                !.allInvoices = fetchedInvoices,
                !.detailedLineItems = fetchedLineItems,
                !.processedData = processed,
                !.accountsData[load.accountId] =
                   AccountData(fetchedInvoices, fetchedLineItems, processed, load.timeRange),
                !.isLoading = IF load.isBackgroundRefresh THEN @ ELSE FALSE],
        saveData(saveData(saveData(localStorage, load.accountId, "invoices", fetchedInvoices, ""),
                          load.accountId, "csvLineItems", fetchedLineItems, ""),
                 load.accountId, "processedData", processed, load.timeRange),
        loads \ {load})
InvoiceDataArrives(load) ==
  /\ load \in loads
  /\ Becomes(DataArrived(load, Arr(InvoicesOf(load.accountId)), Arr(LineItemsOf(load.accountId)),
                         Visualizations(FilteredBy(Arr(LineItemsOf(load.accountId)),
                                                   load.timeRange, now, engine))))

\* a request of fetchInvoicesList fails: it returns [] (csvUtils.js, lines
\* 1278-1281), fetchAllInvoiceData maps over no invoice and returns empty
\* lists (lines 1192-1228), and fetchDataFromAPI takes the branch of line 186
InvoiceListFails(load) ==
  /\ load \in loads
  /\ Becomes(State(IF Crashed THEN app
                   ELSE [app EXCEPT !.error = "No invoices found for this account.",
                                    !.isLoading = FALSE],
                   localStorage, loads \ {load}))

\* hours pass, and the items of the storage grow older
Older(hours) == IF hours = "fresh" THEN "aging" ELSE "stale"
HoursPass ==
  /\ \E name \in AccountNames : localStorage.items[name].hours # "stale"
                                /\ localStorage.items[name] # NoItems
  /\ Becomes(State(app,
                   [localStorage EXCEPT !.items =
                      [name \in AccountNames |->
                         IF localStorage.items[name] = NoItems THEN NoItems
                         ELSE [localStorage.items[name] EXCEPT !.hours = Older(@)]]],
                   loads))

\* the page is loaded again: the component is constructed and its effect
\* takes the accounts of the storage (lines 72-103); what the page before
\* awaited is gone
Reload ==
  /\ Len(localStorage.doAccounts) > 0
  /\ Becomes(loadAccountData(State([InitialApp EXCEPT !.accounts = localStorage.doAccounts,
                                                     !.isLoggedIn = TRUE],
                                   localStorage, {}),
                             localStorage.doAccounts[1], now, engine))

NextApp ==
  \/ \E name \in AccountNames : AddAccount(name)
  \/ \E index \in 0..(Cardinality(AccountNames) - 1) : SwitchAccount(index)
  \/ \E index \in 0..(Cardinality(AccountNames) - 1) : RemoveAccount(index)
  \/ Logout
  \/ Refresh
  \/ \E newRange \in AppTimeRanges : TimeRangeChange(newRange)
  \/ \E load \in loads : InvoiceDataArrives(load)
  \/ \E load \in loads : InvoiceListFails(load)
  \/ HoursPass
  \/ Reload

SpecApp == InitApp /\ [][NextApp]_vars
\* ============================================================== properties
\* helpers of the properties
IsProcessCall == call.op = "processCSVDataForVisualizations"
IsFilterCall == call.op = "filterLineItemsByTimeRange"

\* the items the aggregation of the last call went through
Processed ==
  IF call.range = "none" THEN call.arg
  ELSE filterLineItemsByTimeRange(call.arg, call.range, now, engine)

\* the signed sum of the extracted amounts of the items at the indexes in S
RECURSIVE SumAmounts(_, _)
SumAmounts(items, S) ==
  IF S = {} THEN 0
  ELSE LET i == CHOOSE i \in S : TRUE
       IN  extractMonetaryValue(items[i]) + SumAmounts(items, S \ {i})

\* a label -> total object as a mapping, whatever its insertion order
AsMapping(map) == {<<map[i].k, map[i].v>> : i \in 1..Len(map)}

\* the monthly series as the set of its (label, value) pairs
SeriesPairs(monthlyData) ==
  {<<monthlyData.labels[i], monthlyData.values[i]>> : i \in 1..Len(monthlyData.labels)}

\* the number of occurrences of x in seq
Count(seq, x) == Cardinality({i \in 1..Len(seq) : seq[i] = x})

\* the text of a dimension field, <<>> when it is absent
TextOf(item, field) == IF Has(item, field) THEN Get(item, field).s ELSE <<>>

\* C1  Sign preservation: every processed item with a negative amount is
\* counted with exactly that amount in its category, project and product
\* bucket, in its month bucket when it has a month, and in totalAmount.
C1_SignPreservation ==
  IsProcessCall =>
    LET items == Processed
        all == 1..Len(items)
    IN  \A i \in all :
          extractMonetaryValue(items[i]) < 0 =>
            /\ <<CategoryOf(items[i]),
                 SumAmounts(items, {j \in all : CategoryOf(items[j]) = CategoryOf(items[i])})>>
                 \in AsMapping(call.ret.categoryData)
            /\ <<ProjectOf(items[i]),
                 SumAmounts(items, {j \in all : ProjectOf(items[j]) = ProjectOf(items[i])})>>
                 \in AsMapping(call.ret.projectData)
            /\ <<ProductOf(items[i]),
                 SumAmounts(items, {j \in all : ProductOf(items[j]) = ProductOf(items[i])})>>
                 \in AsMapping(call.ret.productData)
            /\ MonthOf(items[i], engine) # <<>> =>
                 <<MonthOf(items[i], engine),
                   SumAmounts(items, {j \in all : MonthOf(items[j], engine) = MonthOf(items[i], engine)})>>
                   \in SeriesPairs(call.ret.monthlyData)
            /\ call.ret.summary.totalAmount = SumAmounts(items, all)

\* a discount with a month shares its project bucket with a charge
C1_Witness ==
  /\ IsProcessCall
  /\ \E i, j \in 1..Len(Processed) :
       /\ extractMonetaryValue(Processed[i]) < 0
       /\ MonthOf(Processed[i], engine) # <<>>
       /\ extractMonetaryValue(Processed[j]) > 0
       /\ ProjectOf(Processed[i]) = ProjectOf(Processed[j])
  /\ call.ret.summary.totalAmount < 0

\* C2  Deny list: the extracted amount does not depend on the hours and
\* invoice_amount fields; USD "25.00" with invoice_amount "4000.00" extracts
\* 25.00; a record whose other fields hold no number and no digit extracts 0.
IsExtractCall == recCall.op = "extractMonetaryValue"
DenyList == {"hours", "invoice_amount"}
NotDenied(e) == e.k \notin DenyList
HoldsNoNumber(v) == v.t # "num" /\ \A i \in 1..Len(v.s) : v.s[i] \notin DigitSet
UsdAmount(item) ==
  IF ~Has(item, "USD") THEN NaN
  ELSE IF Get(item, "USD").t = "str" THEN ParseFloatStr(Clean(Get(item, "USD").s))
  ELSE IF Get(item, "USD").t = "num" THEN Number(Get(item, "USD").n)
  ELSE NaN
PriorityOrder == <<"amount", "cost", "price", "charge">>
NamedAmount(item, j) ==
  IF Has(item, PriorityOrder[j]) THEN ParseFloat(Get(item, PriorityOrder[j])) ELSE NaN
Qualifies(e) ==
  /\ e.k \notin DenyList
  /\ \/ e.v.t = "num"
     \/ /\ e.v.t = "str"
        /\ \E i \in 1..Len(e.v.s) : e.v.s[i] \in {"$", "-"}
        /\ ParseFloatStr(Clean(e.v.s)).ok
QualifyingAmount(e) == IF e.v.t = "num" THEN e.v.n ELSE ParseFloatStr(Clean(e.v.s)).v
\* ret is what the priority yields when the scan ranges over the entries whose
\* keys are not in `excluded`
FollowsPriority(item, ret, excluded) ==
  LET scanned == {i \in 1..Len(item) : item[i].k \notin excluded /\ Qualifies(item[i])}
      named == {j \in 1..4 : NamedAmount(item, j).ok}
  IN  IF UsdAmount(item).ok THEN ret = UsdAmount(item).v
      ELSE IF named # {}
      THEN \E j \in named : (\A h \in named : j <= h) /\ ret = NamedAmount(item, j).v
      ELSE IF scanned # {}
      THEN \E i \in scanned : (\A h \in scanned : i <= h) /\ ret = QualifyingAmount(item[i])
      ELSE ret = 0

\* C3 as stated: the scan of the third step ranges over the remaining fields,
\* those that are not USD, amount, cost, price or charge.
C3_RemainingFieldScan ==
  IsExtractCall =>
    FollowsPriority(rec, recCall.ret, {"USD", "amount", "cost", "price", "charge"})

\* C3 amended: a parseable USD field; else the first of amount, cost, price,
\* charge that parseFloat accepts; else the first qualifying field of a scan
\* over all the fields of the record but hours and invoice_amount; else 0.
C3_Priority == IsExtractCall => FollowsPriority(rec, recCall.ret, {})

\* USD is present but unparseable, amount is not numeric, cost is
C3_Witness ==
  /\ IsExtractCall
  /\ Has(rec, "USD") /\ ~UsdAmount(rec).ok
  /\ Has(rec, "amount") /\ ~NamedAmount(rec, 1).ok
  /\ NamedAmount(rec, 2).ok
  /\ recCall.ret = NamedAmount(rec, 2).v

\* C4  isDiscountItem is true exactly when the amount is negative or one of
\* description, category, product, name contains a discount keyword, case
\* ignored.
Keywords == {<<"d", "i", "s", "c", "o", "u", "n", "t">>, <<"c", "r", "e", "d", "i", "t">>, <<"r", "e", "f", "u", "n", "d">>, <<"r", "e", "b", "a", "t", "e">>, <<"a", "d", "j", "u", "s", "t", "m", "e", "n", "t">>}
IsNettingScenario ==
  /\ IsProcessCall
  /\ call.arg \in {<<ItemCharge, ItemDiscount>>, <<ItemDiscount, ItemCharge>>}

\* C5 as stated: the two records give the single category bucket
\* Compute = 80.00.
C5_Netted ==
  IsNettingScenario => AsMapping(call.ret.categoryData) = {<<<<"C", "o", "m", "p", "u", "t", "e">>, 8000>>}

\* C5 amended: the two records give the category buckets Compute = 100.00 and
\* Contract Discount = -20.00; the discount is netted in totalAmount = 80.00
\* only.
C5_Relabelled ==
  IsNettingScenario =>
    /\ AsMapping(call.ret.categoryData)
         = {<<<<"C", "o", "m", "p", "u", "t", "e">>, 10000>>, <<<<"C", "o", "n", "t", "r", "a", "c", "t", " ", "D", "i", "s", "c", "o", "u", "n", "t">>, -2000>>}
    /\ call.ret.summary.totalAmount = 8000

C5_Witness == IsProcessCall /\ call.arg = <<ItemCharge, ItemDiscount>>

\* C6  The category label in processCSVDataForVisualizations: a discount is
\* labelled by categorizeDiscountItem, any other record by the first present
\* of category, name, product, group_description, description, else Unknown.
ChainFields == <<"category", "name", "product", "group_description", "description">>
ChainLabel(item) ==
  IF isDiscountItem(item) THEN categorizeDiscountItem(item)
  ELSE FirstTruthy(item, ChainFields, <<"U", "n", "k", "n", "o", "w", "n">>)
C6_CategoryChain ==
  (IsProcessCall /\ Len(Processed) > 0) =>
    AsMapping(call.ret.categoryData)
      = {<<ChainLabel(Processed[i]),
           SumAmounts(Processed, {j \in 1..Len(Processed) :
                                     ChainLabel(Processed[j]) = ChainLabel(Processed[i])})>> :
           i \in 1..Len(Processed)}

\* C7  categorizeDiscountItem: iaas, then paas, then contract, looked for in
\* description, category and product; else Discounts.
MentionedIn(item, word) ==
  \E field \in {"description", "category", "product"} :
    Includes(ToLowerCase(TextOf(item, field)), word)
C7_DiscountTaxonomy ==
  recCall.op = "categorizeDiscountItem" =>
    recCall.ret = IF MentionedIn(rec, <<"i", "a", "a", "s">>) THEN <<"I", "a", "a", "S", " ", "D", "i", "s", "c", "o", "u", "n", "t">>
                  ELSE IF MentionedIn(rec, <<"p", "a", "a", "s">>) THEN <<"P", "a", "a", "S", " ", "D", "i", "s", "c", "o", "u", "n", "t">>
                  ELSE IF MentionedIn(rec, <<"c", "o", "n", "t", "r", "a", "c", "t">>) THEN <<"C", "o", "n", "t", "r", "a", "c", "t", " ", "D", "i", "s", "c", "o", "u", "n", "t">>
                  ELSE <<"D", "i", "s", "c", "o", "u", "n", "t", "s">>

\* C8  Order independence: every permutation of the list gives the same
\* category, project and product totals, the same totalAmount and the same
\* monthly series.
IndexPermutations(n) == {p \in [1..n -> 1..n] : \A i, j \in 1..n : p[i] = p[j] => i = j}
C8_OrderIndependence ==
  IsProcessCall =>
    \A p \in IndexPermutations(Len(call.arg)) :
      LET shuffled == [i \in 1..Len(call.arg) |-> call.arg[p[i]]]
          other == processCSVDataForVisualizations(shuffled, call.range, now, engine)
      IN  /\ AsMapping(other.categoryData) = AsMapping(call.ret.categoryData)
          /\ AsMapping(other.projectData) = AsMapping(call.ret.projectData)
          /\ AsMapping(other.productData) = AsMapping(call.ret.productData)
          /\ other.summary.totalAmount = call.ret.summary.totalAmount
          /\ other.monthlyData = call.ret.monthlyData

Shorter(selectedRange) ==
  CASE selectedRange = "all" -> {"12months", "6months", "3months", "1month"}
    [] selectedRange = "12months" -> {"6months", "3months", "1month"}
    [] selectedRange = "6months" -> {"3months", "1month"}
    [] selectedRange = "3months" -> {"1month"}
    [] OTHER -> {}
C10_WindowMonotonicity ==
  IsFilterCall =>
    \A shorter \in Shorter(call.range) :
      LET fewer == filterLineItemsByTimeRange(call.arg, shorter, now, engine)
      IN  \A i \in 1..Len(fewer) : Count(fewer, fewer[i]) <= Count(call.ret, fewer[i])

\* the 6-month window drops an item and keeps one that the 3-month window drops
C10_Witness ==
  /\ IsFilterCall
  /\ call.range = "6months"
  /\ Len(call.ret) < Len(call.arg)
  /\ Len(filterLineItemsByTimeRange(call.arg, "3months", now, engine)) < Len(call.ret)

\* the date fields that filterLineItemsByTimeRange looks at
DateFields == {"invoice_period", "date", "start", "created_at", "invoice_date"}

\* the windows of the filter; "other" is any selectedRange without a case
AnyRange == TimeRanges \cup {"other"}

\* C11  Fail-open date handling: a line item whose effective date cannot be
\* determined (no date field, or the field used does not parse to a valid
\* date) is in the result of filterLineItemsByTimeRange as often as in the
\* input, in the call made and for every other window.
C11_FailOpen ==
  IsFilterCall =>
    \A i \in 1..Len(call.arg) :
      ~ItemDate(call.arg[i], engine).ok =>
        /\ Count(call.ret, call.arg[i]) = Count(call.arg, call.arg[i])
        /\ \A r \in AnyRange :
             Count(filterLineItemsByTimeRange(call.arg, r, now, engine), call.arg[i])
               = Count(call.arg, call.arg[i])

\* a one-month filter that drops a dated item and keeps an item whose date
\* field is present and does not parse
C11_Witness ==
  /\ IsFilterCall
  /\ call.range = "1month"
  /\ Len(call.ret) < Len(call.arg)
  /\ \E i \in 1..Len(call.ret) :
       /\ \E f \in DateFields : Truthy(Get(call.ret[i], f))
       /\ ~ItemDate(call.ret[i], engine).ok

\* the effective date in the priority order invoice period, start, created-at,
\* date
RECURSIVE FirstDateOf(_, _, _)
FirstDateOf(item, fields, e) ==
  IF fields = <<>> THEN InvalidDate
  ELSE IF Truthy(Get(item, Head(fields)))
       THEN (IF Get(item, Head(fields)).t = "str" /\ IsYearMonth(Get(item, Head(fields)).s)
             THEN DateFromString(Get(item, Head(fields)).s \o <<"-", "0", "1">>, e)
             ELSE DateFromValue(Get(item, Head(fields)), e))
  ELSE FirstDateOf(item, Tail(fields), e)
StartBeforeDate == <<"invoice_period", "start", "created_at", "date">>

\* C12  Effective-date priority: the date that filterLineItemsByTimeRange
\* compares against the window is that of the first present field in the
\* order invoice period, start, created-at, date: an item whose date in that
\* order is valid is kept exactly when that date is not before the floor of
\* the window.
C12_DatePriority ==
  (IsFilterCall /\ call.range # "all") =>
    \A i \in 1..Len(call.arg) :
      LET claimed == FirstDateOf(call.arg[i], StartBeforeDate, engine)
          floor == FilterInstant(now, LineItemMonthsBack(call.range))
      IN  claimed.ok =>
            Count(call.ret, call.arg[i])
              = (IF claimed.t >= floor THEN Count(call.arg, call.arg[i]) ELSE 0)

IsInvoiceFilterCall == call.op = "filterInvoicesByTimeRange"

\* the index of an invoice with the latest effective date
LatestInvoice(list, e) ==
  CHOOSE i \in 1..Len(list) :
    \A j \in 1..Len(list) : InvoiceDate(list[j], e).t <= InvoiceDate(list[i], e).t

\* the invoices of the calendar month and year of invoice number at
InMonthOf(list, at, e) ==
  FilterSeq(list,
            [i \in 1..Len(list) |->
               /\ InvoiceDate(list[i], e).y = InvoiceDate(list[at], e).y
               /\ InvoiceDate(list[i], e).m = InvoiceDate(list[at], e).m],
            1)

\* C13  lastMonth anchor: for every non-empty invoice list, in any order and
\* on any current date, filterInvoicesByTimeRange(invoices, 1month) returns
\* exactly the invoices of the calendar month and year of the invoice with the
\* latest effective date, that invoice included.
C13_LastMonthAnchor ==
  (IsInvoiceFilterCall /\ call.range = "1month" /\ Len(call.arg) > 0) =>
    /\ call.ret = InMonthOf(call.arg, LatestInvoice(call.arg, engine), engine)
    /\ Count(call.ret, call.arg[LatestInvoice(call.arg, engine)]) >= 1

\* the first instant of year 2000
Year2000 == 2 * DayFromYearMonth(2000, 0)

\* C14  Fixed epoch floor: filterInvoicesByTimeRange(invoices, all) keeps
\* exactly the invoices whose effective date is valid and not before a floor
\* that is the same on every current date, and never rejects an invoice dated
\* in year 2000 or later.
C14_FixedEpochFloor ==
  (IsInvoiceFilterCall /\ call.range = "all") =>
    /\ \A today \in Todays : filterInvoicesByTimeRange(call.arg, "all", today, engine) = call.ret
    /\ \A i \in 1..Len(call.arg) :
         (InvoiceDate(call.arg[i], engine).ok /\ InvoiceDate(call.arg[i], engine).t >= Year2000)
           => Count(call.ret, call.arg[i]) = Count(call.arg, call.arg[i])

\* the calendar month that a label of the monthly series denotes, as a count
\* of months; -1 when the label denotes none
CalendarMonth(label, e) ==
  IF parseMonthPeriod(label, e).ok
  THEN 12 * parseMonthPeriod(label, e).y + parseMonthPeriod(label, e).m
  ELSE -1

\* the indexes of the processed items whose month label is the given one
WithMonth(items, label, e) == {i \in 1..Len(items) : MonthOf(items[i], e) = label}

\* C15  Chronological monthly series: in the monthlyData returned by
\* processCSVDataForVisualizations every label denotes a calendar month, each
\* entry denotes a strictly later month than the one before it, and every
\* value is the total of the items of its label.
C15_Chronological ==
  IsProcessCall =>
    LET labels == call.ret.monthlyData.labels
        values == call.ret.monthlyData.values
    IN  /\ Len(values) = Len(labels)
        /\ \A i \in 1..Len(labels) : CalendarMonth(labels[i], engine) >= 0
        /\ \A i \in 1..(Len(labels) - 1) :
             CalendarMonth(labels[i], engine) < CalendarMonth(labels[i + 1], engine)
        /\ \A i \in 1..Len(labels) :
             values[i] = SumAmounts(Processed, WithMonth(Processed, labels[i], engine))

\* the sum of the totals of a label -> total object, and of a series of values
RECURSIVE SumBuckets(_, _)
SumBuckets(map, n) == IF n = 0 THEN 0 ELSE map[n].v + SumBuckets(map, n - 1)
RECURSIVE SumSeries(_, _)
SumSeries(values, n) == IF n = 0 THEN 0 ELSE values[n] + SumSeries(values, n - 1)

\* an item with neither an invoice period nor a parseable start date
HasNoMonth(item, e) ==
  /\ ~Truthy(Get(item, "invoice_period"))
  /\ ~(Truthy(Get(item, "start")) /\ DateFromValue(Get(item, "start"), e).ok)

\* C16  Conservation across dimensions: for a non-empty item list the category,
\* project and product bucket totals each sum to summary.totalAmount, which is
\* the signed sum of the extracted amounts of the aggregated items;
\* summary.totalItems is their number; the monthly series sums to totalAmount
\* minus the amounts of the items with neither an invoice period nor a
\* parseable start date.
C16_Conservation ==
  (IsProcessCall /\ Len(call.arg) > 0) =>
    LET total == call.ret.summary.totalAmount
        all == 1..Len(Processed)
    IN  /\ total = SumAmounts(Processed, all)
        /\ SumBuckets(call.ret.categoryData, Len(call.ret.categoryData)) = total
        /\ SumBuckets(call.ret.projectData, Len(call.ret.projectData)) = total
        /\ SumBuckets(call.ret.productData, Len(call.ret.productData)) = total
        /\ call.ret.summary.totalItems = Len(Processed)
        /\ SumSeries(call.ret.monthlyData.values, Len(call.ret.monthlyData.values))
             = total - SumAmounts(Processed, {i \in all : HasNoMonth(Processed[i], engine)})

\* an aggregation of two items in two categories, one of them a discount and
\* one of them without a month, with a total that is not zero
C16_Witness ==
  /\ IsProcessCall
  /\ Len(Processed) = 2
  /\ Len(call.ret.categoryData) = 2
  /\ call.ret.summary.totalAmount # 0
  /\ \E i \in 1..2 : extractMonetaryValue(Processed[i]) < 0
  /\ \E i \in 1..2 : HasNoMonth(Processed[i], engine) /\ extractMonetaryValue(Processed[i]) # 0
  /\ Len(call.ret.monthlyData.labels) = 1

\* ---------------------------------------------------------------- C17
\* C17: calculateTrendAndForecast compares the last two points of the series
\* it is given: with at least two points and prev # 0 the trend is Up when
\* last - prev >= 0 and Down otherwise, and its percent is
\* |last - prev| / |prev| * 100 to one decimal, also when prev is negative;
\* with fewer than two points or prev = 0 the trend is N/A.
PercentTenths(tenths, change, prev) ==
  /\ 2 * tenths * Abs(prev) - Abs(prev) <= 2000 * Abs(change)
  /\ 2000 * Abs(change) < 2 * tenths * Abs(prev) + Abs(prev)
TrendOfLastTwo(trendText, values) ==
  IF Len(values) < 2 THEN trendText.direction = "N/A"
  ELSE IF values[Len(values) - 1] = 0 THEN trendText.direction = "N/A"
  ELSE /\ trendText.direction =
            (IF values[Len(values)] - values[Len(values) - 1] >= 0 THEN "Up" ELSE "Down")
       /\ PercentTenths(trendText.tenths, values[Len(values)] - values[Len(values) - 1],
                        values[Len(values) - 1])
C17_Trend ==
  trendCall # NoTrendCall => TrendOfLastTwo(trendCall.ret.trendText, monthlySeries.values)
\* a series whose previous month is a net credit of 10 and whose last month
\* is a spend of 5: Up 150.0%
C17_Witness ==
  /\ trendCall # NoTrendCall
  /\ Len(monthlySeries.values) >= 2
  /\ monthlySeries.values[Len(monthlySeries.values) - 1] < 0
  /\ trendCall.ret.trendText = [direction |-> "Up", tenths |-> 1500]

\* ---------------------------------------------------------------- C18
\* C18: the forecasting method is determined by the length n of the series
\* alone: n = 2 is the damped growth, 3 <= n <= 5 the linear regression,
\* 6 <= n <= 11 the weighted moving average and n >= 12 the seasonal
\* ensemble, as the confidence text of the result tells; the texts of 2, 3, 6
\* and 12 points are four different ones.
MethodText(n) ==
  IF n >= 12 THEN "Based on ${values.length} months with seasonal adjustment, +-${confidencePercent}%"
  ELSE IF n >= 6 THEN "Based on ${values.length} months trend analysis, +-${confidencePercent}%"
  ELSE IF n >= 3 THEN "Based on ${n} months regression analysis, +-${confidencePercent}%"
  ELSE "Based on 2 months of data, high uncertainty (+-20%)"
MethodOfLength(confidenceText, n) ==
  /\ confidenceText.text = MethodText(n)
  /\ n >= 3 => confidenceText.months = n
C18_Regimes ==
  /\ Cardinality({MethodText(n) : n \in {2, 3, 6, 12}}) = 4
  /\ (trendCall # NoTrendCall /\ Len(monthlySeries.values) >= 2) =>
       MethodOfLength(trendCall.ret.confidenceText, Len(monthlySeries.values))
\* a series of exactly twelve months was forecast by the seasonal ensemble,
\* with a forecast that is a number
C18_Witness ==
  /\ trendCall # NoTrendCall
  /\ Len(monthlySeries.values) = 12
  /\ trendCall.ret.confidenceText.months = 12
  /\ ~trendCall.ret.forecastAmount.nan

\* ---------------------------------------------------------------- C19
\* the aggregation was called and no record went into it: the list is
\* empty, or the window filter leaves nothing of it
NoInputRecords == IsProcessCall /\ Len(Processed) = 0
EmptyMonthlySeries(data) == data.monthlyData = [labels |-> <<>>, values |-> <<>>]
\* totalAmount 0, forecastAmount 0, trend unknown
ZeroSummary(summary) ==
  /\ summary.totalAmount = 0
  /\ summary.totalItems = 0
  /\ summary.forecastAmount = Exact(Whole(0))
  /\ summary.trendText = TrendUnknown
\* the mapping { 'No Data': 0 }
NoDataBucket == <<[k |-> <<"N", "o", " ", "D", "a", "t", "a">>, v |-> 0]>>

\* C19 as stated: with no input records (an empty list, or a list of which
\* the window filter leaves nothing) processCSVDataForVisualizations returns
\* empty bucket mappings for category, project and product, an empty monthly
\* series and a zero-valued summary (totalAmount 0, forecastAmount 0, trend
\* unknown).
C19_EmptyBuckets ==
  NoInputRecords =>
    /\ call.ret.categoryData = <<>>
    /\ call.ret.projectData = <<>>
    /\ call.ret.productData = <<>>
    /\ EmptyMonthlySeries(call.ret)
    /\ ZeroSummary(call.ret.summary)

\* C19 as amended: with no input records the category, project and product
\* mappings each hold the one placeholder bucket 'No Data' with the value 0,
\* the monthly series is empty and the summary is zero-valued (totalAmount
\* 0, forecastAmount 0, trend N/A).
C19_NoDataBuckets ==
  NoInputRecords =>
    /\ call.ret.categoryData = NoDataBucket
    /\ call.ret.projectData = NoDataBucket
    /\ call.ret.productData = NoDataBucket
    /\ EmptyMonthlySeries(call.ret)
    /\ ZeroSummary(call.ret.summary)
\* a list that is not empty, of which the window of the call leaves nothing
C19_Witness ==
  /\ NoInputRecords
  /\ Len(call.arg) > 0
  /\ call.ret = createEmptyVisualizationData

\* ---------------------------------------------------------------- C20
\* the fetch of invoice i succeeded: fetchInvoiceCSV got the text of a
\* response that is ok
FetchSucceeded(i) == promises[i].got = "text"
AllSettled == \A i \in 1..Len(promises) : promises[i].at \in {"fulfilled", "rejected"}
\* the number of records of the invoices 1..n whose fetch succeeded
RECURSIVE RecordsFetched(_)
RecordsFetched(n) ==
  IF n = 0 THEN 0
  ELSE RecordsFetched(n - 1) + (IF FetchSucceeded(n) THEN Len(promises[n].csvData) ELSE 0)
\* item carries the invoice_uuid, invoice_period and invoice_amount of invoice
IsTaggedWith(item, invoice) ==
  /\ Get(item, "invoice_uuid") = Get(invoice, "invoice_uuid")
  /\ Get(item, "invoice_period") = Get(invoice, "invoice_period")
  /\ Get(item, "invoice_amount") = Get(invoice, "amount")
\* item has the columns of the CSV row, with their values
IsRecordOf(item, row) == \A c \in 1..Len(row) : Get(item, row[c].k) = row[c].v
CopiesTagged(items, row, invoice) ==
  Cardinality({k \in 1..Len(items) : IsTaggedWith(items[k], invoice) /\ IsRecordOf(items[k], row)})

\* C20: for every subset of per-invoice CSV fetches that fail and every
\* completion order, fetchAllInvoiceData returns only after all fetches have
\* settled, and the lineItems it returns are exactly the records of the
\* invoices whose fetch succeeded, each as often as its CSV holds it and
\* tagged with the invoice_uuid, invoice_period and invoice_amount of the
\* invoice it was fetched for.
C20_FanOutIsolation ==
  fetchAll.at = "returned" =>
    /\ AllSettled
    /\ Len(fetchAll.ret.lineItems) = RecordsFetched(Len(promises))
    /\ \A i \in 1..Len(promises) :
         FetchSucceeded(i) =>
           \A j \in 1..Len(promises[i].csvData) :
             CopiesTagged(fetchAll.ret.lineItems, promises[i].csvData[j], invoicesList[i])
               = Count(promises[i].csvData, promises[i].csvData[j])

\* ---------------------------------------------------------------- C22
OnePoint == trendCall # NoTrendCall /\ Len(monthlySeries.values) = 1
LimitedDataText == "Based on limited visible data, high variance possible"
\* C22 as stated: for a monthly series with exactly one point
\* calculateTrendAndForecast returns a flat carry-forward, a forecastAmount
\* equal to that single value, with the trend unknown and a disclaimer as
\* the confidence label.
C22_CarryForward ==
  OnePoint =>
    /\ trendCall.ret.forecastAmount = Exact(Whole(monthlySeries.values[1]))
    /\ trendCall.ret.trendText = TrendUnknown
    /\ trendCall.ret.confidenceText = Confidence(LimitedDataText, 0, 0)

\* C22 as amended: for a monthly series with exactly one point
\* calculateTrendAndForecast returns the single value grown by 3 percent
\* (value * 1.03) as forecastAmount, with the trend N/A and the disclaimer
\* 'Based on limited visible data, high variance possible' as the confidence
\* label, which is never marked as anomaly-adjusted.
C22_ThreePercent ==
  OnePoint =>
    /\ trendCall.ret.forecastAmount = Exact(Frac(103 * monthlySeries.values[1], 100))
    /\ trendCall.ret.trendText = TrendUnknown
    /\ trendCall.ret.confidenceText = Confidence(LimitedDataText, 0, 0)
\* a series of the one month 20 was forecast as 20.6
C22_Witness ==
  /\ OnePoint
  /\ monthlySeries.values[1] = 20
  /\ trendCall.ret.forecastAmount = Exact(Frac(103, 5))

\* ---------------------------------------------------------------- C23
\* the call was on a series of 3, 4 or 5 points whose last value is positive
RegressionOnPositive ==
  /\ trendCall # NoTrendCall
  /\ Len(monthlySeries.values) \in 3..5
  /\ monthlySeries.values[Len(monthlySeries.values)] > 0
\* a forecast amount that is a number of [0.5 * last, 2 * last]
WithinClamp(forecastAmount, last) ==
  /\ ~forecastAmount.nan
  /\ forecastAmount.a.n = 0
  /\ ~Less(forecastAmount.b, Frac(last, 2))
  /\ ~Less(Whole(2 * last), forecastAmount.b)
\* C23: for every series of 3, 4 or 5 points whose last value is positive,
\* the forecastAmount that calculateTrendAndForecast returns, after all
\* adjustments and the anomaly damping among them, lies within
\* [0.5 * last, 2 * last].
C23_RegressionClamp ==
  RegressionOnPositive =>
    WithinClamp(trendCall.ret.forecastAmount, monthlySeries.values[Len(monthlySeries.values)])

\* the forecast amount before the blend of line 1856: the amount itself when
\* the label is not marked, and (amount - 0.6 * blendedBaseline) / 0.4 when
\* it is
BeforeDamping(ret, values) ==
  IF ret.confidenceText.anomaly
  THEN Scaled(ret.forecastAmount, Frac(5, 2), Times(BlendedBaseline(values), Frac(0 - 3, 2)))
  ELSE ret.forecastAmount
\* C23 as amended: for every series of 3, 4 or 5 points whose last value is
\* positive, the forecast of the regression method lies within
\* [0.5 * last, 2 * last] before the anomaly damping: the forecastAmount
\* returned lies within these bounds whenever the label is not marked as
\* anomaly-adjusted (always with 3 points), and is 0.4 times an amount
\* within them plus 0.6 times the blended baseline when it is.
C23_ClampBeforeDamping ==
  RegressionOnPositive =>
    WithinClamp(BeforeDamping(trendCall.ret, monthlySeries.values),
                monthlySeries.values[Len(monthlySeries.values)])
\* the forecast of a five-month series was damped and left the bounds that
\* the regression had kept
C23_Witness ==
  /\ RegressionOnPositive
  /\ Len(monthlySeries.values) = 5
  /\ trendCall.ret.confidenceText.anomaly
  /\ ~WithinClamp(trendCall.ret.forecastAmount, monthlySeries.values[5])
  /\ ForecastRegression(monthlySeries.values).forecastAmount
       = BeforeDamping(trendCall.ret, monthlySeries.values)

\* ---------------------------------------------------------------- C24
\* the median the code takes (the upper one of an even number of points) and
\* the average of the three points before the last
MedianOf(values) == SortedValueAt(values, Len(values) \div 2)
\* the last point deviates by more than percent from a baseline that is not
\* zero: 100 * |last - baseline| > percent * |baseline|, with baseline = sum / count
DeviatesBy(last, sum, count, percent) ==
  /\ sum # 0
  /\ 100 * Abs(count * last - sum) > percent * Abs(sum)
AnomalyCondition(values) ==
  /\ Len(values) >= 4
  /\ DeviatesBy(values[Len(values)], MedianOf(values), 1, 30)
  /\ DeviatesBy(values[Len(values)],
                values[Len(values) - 1] + values[Len(values) - 2] + values[Len(values) - 3], 3, 25)
\* what the regime method produced for the series
RegimeForecast(values) ==
  ForecastOf(values, values[Len(values)], values[IF Len(values) >= 2 THEN Len(values) - 1 ELSE 1],
             Len(values) >= 2)
\* 0.4 * forecast + 0.6 * (0.7 * trailing average + 0.3 * median)
DampedAmount(forecastAmount, values) ==
  Scaled(forecastAmount, Frac(2, 5),
         Times(Plus(Times(Frac(values[Len(values) - 1] + values[Len(values) - 2]
                               + values[Len(values) - 3], 3), Frac(7, 10)),
                    Times(Whole(MedianOf(values)), Frac(3, 10))), Frac(3, 5)))
\* the forecast and the label are the damped ones if adjusted, and those of
\* the regime method if not
DampedIff(adjusted, ret, values) ==
  IF adjusted
  THEN /\ ret.forecastAmount = DampedAmount(RegimeForecast(values).forecastAmount, values)
       /\ ret.confidenceText = [RegimeForecast(values).confidenceText EXCEPT !.anomaly = TRUE]
  ELSE /\ ret.forecastAmount = RegimeForecast(values).forecastAmount
       /\ ret.confidenceText = RegimeForecast(values).confidenceText
       /\ ~ret.confidenceText.anomaly
\* the condition with the deviations taken against the baselines as they
\* are: |last - baseline| > percent/100 * |baseline|, a zero baseline included
DeviatesFrom(last, sum, count, percent) ==
  100 * Abs(count * last - sum) > percent * Abs(sum)
AnomalyConditionAsStated(values) ==
  /\ Len(values) >= 4
  /\ DeviatesFrom(values[Len(values)], MedianOf(values), 1, 30)
  /\ DeviatesFrom(values[Len(values)],
                  values[Len(values) - 1] + values[Len(values) - 2] + values[Len(values) - 3], 3, 25)
\* C24 as stated: calculateTrendAndForecast replaces the forecast by
\* 0.4 * forecast + 0.6 * (0.7 * trailing average + 0.3 * median) and marks
\* the confidence label as anomaly-adjusted exactly when the series has at
\* least 4 points and the last point deviates by more than 30% from the
\* median of all points and by more than 25% from the average of the three
\* points before it; otherwise forecast and label are left as the regime
\* method produced them, and a series of fewer than 4 points is never
\* adjusted.
C24_AnomalyDampingAsStated ==
  (trendCall # NoTrendCall /\ Len(monthlySeries.values) >= 1) =>
    DampedIff(AnomalyConditionAsStated(monthlySeries.values), trendCall.ret,
              monthlySeries.values)

\* C24 as amended: the forecast is replaced by
\* 0.4 * forecast + 0.6 * (0.7 * trailing average + 0.3 * median) and the
\* label marked as anomaly-adjusted exactly when the series has at least 4
\* points, the median of all points and the average of the three points
\* before the last are both not zero, and the last point deviates by more
\* than 30% from that median and by more than 25% from that average;
\* otherwise, and so whenever the median or the average is zero, forecast
\* and label are as the regime method produced them, and a series of fewer
\* than 4 points is never adjusted.
C24_AnomalyDamping ==
  (trendCall # NoTrendCall /\ Len(monthlySeries.values) >= 1) =>
    DampedIff(AnomalyCondition(monthlySeries.values), trendCall.ret, monthlySeries.values)
\* a series of four months with a jump in the last month was damped, and
\* its label marked
C24_Witness ==
  /\ trendCall # NoTrendCall
  /\ monthlySeries.values = <<12, 12, 10, 20>>
  /\ trendCall.ret.confidenceText.anomaly
  /\ trendCall.ret.forecastAmount # RegimeForecast(monthlySeries.values).forecastAmount

\* ---------------------------------------------------------------- C25
\* C25: for every monthly series of finite values of any length, series with
\* negative or zero monthly totals included, calculateTrendAndForecast
\* returns a forecastAmount that is a finite number, never NaN.
C25_FiniteForecast ==
  trendCall # NoTrendCall => ~trendCall.ret.forecastAmount.nan

\* ---------------------------------------------------------------- C29
\* the fields that are no amounts: the free-text dimensions and the tags of
\* the adapter
DimensionFields == {"description", "category", "product", "name"}
AdapterTags == {"invoice_uuid", "invoice_period", "invoice_amount", "date"}
\* a record of dimensions and tags only, the dimensions being texts
HasNoAmountField(item) ==
  /\ Len(item) >= 1
  /\ \A i \in 1..Len(item) :
       \/ item[i].k \in DimensionFields /\ item[i].v.t = "str"
       \/ item[i].k \in AdapterTags
\* C29: for a record that has no USD, amount, cost, price or charge field and
\* whose fields are only free-text dimensions and the tags of the adapter
\* (invoice_uuid, invoice_period, invoice_amount, date),
\* extractMonetaryValue returns 0, so that the record gets no amount other
\* than zero.
C29_NoAmountFromIdentifiers ==
  (IsExtractCall /\ HasNoAmountField(rec)) => recCall.ret = 0

\* ---------------------------------------------------------------- C26
\* the next link of a response as the claim states it: links.pages.next of
\* the body, else the rel=next entry of the Link header, 0 for none
StatedNextLink(response) ==
  IF response.next # 0 THEN response.next
  ELSE IF \E i \in 1..Len(response.link) : response.link[i].rel = "next"
  THEN response.link[CHOOSE i \in 1..Len(response.link) :
                       /\ response.link[i].rel = "next"
                       /\ \A h \in 1..(i - 1) : response.link[h].rel # "next"].url
  ELSE 0
\* the invoices of the pages visited[1..k], in this order
RECURSIVE InvoicesOfPages(_, _)
InvoicesOfPages(visited, k) ==
  IF k = 0 THEN <<>>
  ELSE InvoicesOfPages(visited, k - 1) \o pages[visited[k]].invoices
\* the requests made follow the next links from the first page on
FollowsNextLinks(visited) ==
  /\ Len(visited) >= 1 => visited[1] = 1
  /\ \A k \in 1..(Len(visited) - 1) : visited[k + 1] = StatedNextLink(pages[visited[k]])
AllVisitedOk(visited) == \A k \in 1..Len(visited) : pages[visited[k]].ok
\* the chain of next links from url ends within k pages that all respond ok
RECURSIVE ChainEnds(_, _)
ChainEnds(url, k) ==
  /\ k > 0
  /\ pages[url].ok
  /\ StatedNextLink(pages[url]) # 0 => ChainEnds(StatedNextLink(pages[url]), k - 1)
PagesInOrder ==
  /\ FollowsNextLinks(listCall.visited)
  /\ (listCall.at = "returned" /\ AllVisitedOk(listCall.visited)) =>
       /\ StatedNextLink(pages[listCall.visited[Len(listCall.visited)]]) = 0
       /\ \A k \in 1..(Len(listCall.visited) - 1) : StatedNextLink(pages[listCall.visited[k]]) # 0
       /\ listCall.ret = InvoicesOfPages(listCall.visited, Len(listCall.visited))
\* C26: fetchInvoicesList requests the pages one after another, following
\* the next link of each response (links.pages.next of the body, else the
\* rel=next of the Link header); when the pages respond ok it stops at the
\* first response without a next link and returns the invoices of all the
\* pages visited, concatenated in page order; and it returns whenever the
\* chain of next links is finite and every page of it responds ok.
C26_Pagination ==
  /\ []PagesInOrder
  /\ (listCall.at = "fetch" /\ ChainEnds(1, MaxPages)) ~> (listCall.at = "returned")
\* two pages were visited, the second one found by the Link header of the
\* first, and the invoices of both were returned
C26_Witness ==
  /\ listCall.at = "returned"
  /\ listCall.visited = <<1, 2>>
  /\ pages[1].next = 0
  /\ pages[1].link = <<[url |-> 1, rel |-> "prev"], [url |-> 2, rel |-> "next"]>>
  /\ listCall.ret = <<InvoiceJan, InvoiceMar, InvoiceOld>>

\* C21: when a request of the invoice list fails (it rejects or its response
\* is not ok, on any page), the caller receives an outcome that differs from
\* the one of an account with zero invoices, which is the empty list
\* (C21_EmptyAccount is such a call), so that fetchDataFromAPI can take its
\* failure branch. The code returns the empty list from its catch.
ListRequestFailed ==
  /\ listCall.at = "returned"
  /\ Len(listCall.visited) > 0
  /\ ~pages[listCall.visited[Len(listCall.visited)]].ok
C21_EmptyAccount ==
  /\ listCall.at = "returned"
  /\ listCall.visited = <<1>>
  /\ pages[1].ok /\ pages[1].invoices = <<>>
  /\ listCall.ret = <<>>
C21_ExplicitFailure == ListRequestFailed => listCall.ret # <<>>


\* C27: once no load is pending, the invoices, line items and processed data
\* on display are those of accounts[currentAccountIndex], never those of
\* another account. Stated on the states that show no error and no spinner.
CurrentAccount == app.accounts[app.currentAccountIndex + 1]
NothingPending ==
  /\ app.isLoggedIn /\ loads = {}
  /\ ~app.isLoading /\ app.error = ""
  /\ Len(app.accounts) > 0
  /\ app.currentAccountIndex >= 0 /\ app.currentAccountIndex < Len(app.accounts)
ShowsDataOf(name) ==
  \/ app.allInvoices = Arr(InvoicesOf(name))
  \/ app.detailedLineItems = Arr(LineItemsOf(name))
  \/ \E range \in AppTimeRanges :
       app.processedData = Visualizations(FilteredBy(Arr(LineItemsOf(name)), range, now, engine))
C27_DisplayedIsCurrent ==
  NothingPending => \A name \in AccountNames \ {CurrentAccount} : ~ShowsDataOf(name)


\* C28: the processedData on display, and the processedData kept with a
\* timeRange tag in accountsData or in the storage, was computed from the
\* line items it goes with, filtered with exactly that time range; the item
\* of the storage records the time range it was computed for.
ComputedFor(processed, items, range) ==
  processed = Visualizations(FilteredBy(items, range, now, engine))
DisplayedMatchesWindow ==
  (/\ app.isLoggedIn /\ loads = {} /\ ~app.isLoading
   /\ app.processedData \notin {Null, Undefined}
   /\ app.detailedLineItems # Undefined)
    => ComputedFor(app.processedData, app.detailedLineItems, app.timeRange)
CachedMatchesWindow ==
  \A name \in AccountNames :
    (/\ app.accountsData[name].processedData # Undefined
     /\ app.accountsData[name].detailedLineItems # Undefined)
      => ComputedFor(app.accountsData[name].processedData,
                     app.accountsData[name].detailedLineItems,
                     app.accountsData[name].timeRange)
StoredRecordsWindow ==
  \A name \in AccountNames :
    loadData(localStorage, name, "processedData").data # Undefined
      => /\ loadData(localStorage, name, "processedData").timeRange \in AppTimeRanges
         /\ ComputedFor(loadData(localStorage, name, "processedData").data,
                        loadData(localStorage, name, "csvLineItems").data,
                        loadData(localStorage, name, "processedData").timeRange)
C28_ProcessedMatchesWindow ==
  DisplayedMatchesWindow /\ CachedMatchesWindow /\ StoredRecordsWindow


\* C30: whenever the account list is non-empty, 0 <= currentAccountIndex <
\* accounts.length; removing an account that precedes the current one leaves
\* the same account current; and when the last account is removed the App is
\* logged out.
IndexInRange ==
  Len(app.accounts) > 0 =>
    app.currentAccountIndex >= 0 /\ app.currentAccountIndex < Len(app.accounts)
RemovedPreceding == removal # NoRemoval /\ removal.index < removal.currentAccountIndex
SameAccountCurrent ==
  /\ Len(app.accounts) = Len(removal.accounts) - 1
  /\ app.currentAccountIndex >= 0 /\ app.currentAccountIndex < Len(app.accounts)
  /\ app.accounts[app.currentAccountIndex + 1] =
       removal.accounts[removal.currentAccountIndex + 1]
RemovedLast == removal # NoRemoval /\ Len(removal.accounts) = 1
C30_CurrentIndexValid ==
  /\ IndexInRange
  /\ RemovedPreceding => SameAccountCurrent
  /\ RemovedLast => (app.accounts = <<>> /\ ~app.isLoggedIn)
C30_Witness ==
  /\ RemovedPreceding
  /\ removal.accounts = <<"a", "b">>
  /\ app.accounts = <<"b">> /\ app.currentAccountIndex = 0
  /\ app.isLoggedIn
C30_WitnessLast == RemovedLast /\ ~app.isLoggedIn

=============================================================================
